---- MODULE Spec2Model ----
(***************************************************************************)
(* A model of the cloth physics core (crate `physics`): constraint         *)
(* coloring, self-collision detection / coloring / resolution, topology    *)
(* exclusion, the hierarchical Morton hash, the static-body resolver and   *)
(* the XPBD constraint kernels.                                            *)
(*                                                                         *)
(* Arithmetic.  The code computes in f32.  The model computes in fixed     *)
(* point: one length unit is 1e-7 m, divisions truncate toward zero.       *)
(* Geometry is restricted to inputs that lie on the Y axis (x = z = 0)     *)
(* with collider triangles perpendicular to it, so a position is one       *)
(* signed integer, a unit vector is +1 or -1, a length is an absolute      *)
(* value, and every triangle of the garment is degenerate (area 0).        *)
(***************************************************************************)
EXTENDS Integers, Sequences, FiniteSets, TLC

VARIABLES
    col,    \* utils/coloring.rs : one call of color_constraints / color_constraints_3
    ex,     \* collision/exclusion.rs : a TopologyExclusion and the mesh it was built from
    hh,     \* collision/spatial/dynamic.rs : a HierarchicalSpatialHash and its last query
    sc,     \* collision/self_collision : a SelfCollision and the particle state it works on
    ds,     \* systems/constraints/distance : a DistanceConstraint batch being solved
    nr,     \* collision/resolver : a CollisionResolver, its collider and one particle
    sim,    \* engine/simulation.rs : the Simulation instances
    bp,     \* collision/resolver/broad.rs : a CollisionResolver through its broad phases
    st,     \* engine/simulation.rs : one Simulation and the trace of its last step
    tt,     \* systems/constraints/tether/mod.rs : a TetherConstraint and its particles
    sg,     \* systems/constraints/distance : one stretched edge under repeated solves
    sf,     \* collision/self_collision : one configuration solved with two stiffnesses
    np      \* collision/resolver/narrow.rs : one particle among layered triangles

vars == <<col, ex, hh, sc, ds, nr, sim, bp, st, tt, sg, sf, np>>

\* Each specification below drives one component; the components it does
\* not construct stay in this state.
Idle == [pc |-> "off"]

OthersIdle(used) ==
    /\ IF "col" \in used THEN TRUE ELSE col = Idle
    /\ IF "ex" \in used THEN TRUE ELSE ex = Idle
    /\ IF "hh" \in used THEN TRUE ELSE hh = Idle
    /\ IF "sc" \in used THEN TRUE ELSE sc = Idle
    /\ IF "ds" \in used THEN TRUE ELSE ds = Idle
    /\ IF "nr" \in used THEN TRUE ELSE nr = Idle
    /\ IF "sim" \in used THEN TRUE ELSE sim = Idle
    /\ IF "bp" \in used THEN TRUE ELSE bp = Idle
    /\ IF "st" \in used THEN TRUE ELSE st = Idle
    /\ IF "tt" \in used THEN TRUE ELSE tt = Idle
    /\ IF "sg" \in used THEN TRUE ELSE sg = Idle
    /\ IF "sf" \in used THEN TRUE ELSE sf = Idle
    /\ IF "np" \in used THEN TRUE ELSE np = Idle

OthersUnchanged(used) ==
    /\ IF "col" \in used THEN TRUE ELSE col' = col
    /\ IF "ex" \in used THEN TRUE ELSE ex' = ex
    /\ IF "hh" \in used THEN TRUE ELSE hh' = hh
    /\ IF "sc" \in used THEN TRUE ELSE sc' = sc
    /\ IF "ds" \in used THEN TRUE ELSE ds' = ds
    /\ IF "nr" \in used THEN TRUE ELSE nr' = nr
    /\ IF "sim" \in used THEN TRUE ELSE sim' = sim
    /\ IF "bp" \in used THEN TRUE ELSE bp' = bp
    /\ IF "st" \in used THEN TRUE ELSE st' = st
    /\ IF "tt" \in used THEN TRUE ELSE tt' = tt
    /\ IF "sg" \in used THEN TRUE ELSE sg' = sg
    /\ IF "sf" \in used THEN TRUE ELSE sf' = sf
    /\ IF "np" \in used THEN TRUE ELSE np' = np

----------------------------------------------------------------------------
(* Generic helpers *)

Abs(x) == IF x < 0 THEN -x ELSE x

Sign(x) == IF x > 0 THEN 1 ELSE IF x < 0 THEN -1 ELSE 0

\* f32 division modelled in fixed point: truncation toward zero.
Div(a, b) == IF a >= 0 THEN a \div b ELSE -((-a) \div b)

MinOf(S) == CHOOSE x \in S : \A y \in S : x <= y

MaxOf(S) == CHOOSE x \in S : \A y \in S : x >= y

Range(s) == {s[k] : k \in DOMAIN s}

RECURSIVE SumSeq(_)
SumSeq(s) == IF s = <<>> THEN 0 ELSE Head(s) + SumSeq(Tail(s))

\* F applied to the value of v: the statement that computes v has run to
\* its end before the statements F stands for begin.
Bind(v, F(_)) == CHOOSE r \in {F(x) : x \in {v}} : TRUE

\* The subsequence of s at the positions whose element satisfies Keep.
SelectIdx(n, Keep(_)) == SelectSeq([k \in 1..n |-> k], Keep)

----------------------------------------------------------------------------
(* utils/coloring.rs *)

\* Width of the used_colors mask (u64).
WordBits == 64

\* constraint_colors[i] = None
NoColor == -1

\* `1u64 << c` as a set of bit positions.  A release build masks the shift
\* amount to the word width; a build with overflow checks panics for c >= 64
\* (see ShlPanics).
Shl1(c) == c % WordBits

ShlPanics(c, overflow_checks) == overflow_checks /\ c >= WordBits

\* (!used_colors).trailing_zeros()
TrailingZerosNot(used) ==
    IF \E b \in 0..(WordBits - 1) : b \notin used
    THEN MinOf({b \in 0..(WordBits - 1) : b \notin used})
    ELSE WordBits

\* The constraints listed in adj[offset[p]..offset[p+1]] for a particle of
\* constraint i: every constraint that names the particle.
Incident(cons, i) ==
    {k \in 1..Len(cons) : Range(cons[k]) \cap Range(cons[i]) # {}}

\* The colors read by the two (three) neighbor scans of constraint i.
NeighborColors(cons, colors, i) ==
    {colors[k] : k \in {n \in Incident(cons, i) : n <= Len(colors) /\ colors[n] # NoColor}}

\* One iteration of the greedy loop: the color given to constraint i,
\* given the colors of constraints 1..i-1.
GreedyColor(cons, colors, i) ==
    TrailingZerosNot({Shl1(c) : c \in NeighborColors(cons, colors, i)})

RECURSIVE GreedyLoop(_, _, _)
GreedyLoop(cons, colors, overflow_checks) ==
    LET i == Len(colors) + 1 IN
    IF i > Len(cons) THEN [panic |-> FALSE, colors |-> colors]
    ELSE IF \E c \in NeighborColors(cons, colors, i) : ShlPanics(c, overflow_checks)
         THEN [panic |-> TRUE, colors |-> colors]
         ELSE GreedyLoop(cons, Append(colors, GreedyColor(cons, colors, i)), overflow_checks)

\* batch_indices: for every color 0..max the constraint indices (1-based
\* here) pushed with that color, in input order.
BatchIndices(colors) ==
    IF colors = <<>> THEN <<>>
    ELSE [c \in 1..(MaxOf(Range(colors)) + 1) |->
             SelectIdx(Len(colors), LAMBDA k : colors[k] = c - 1)]

\* sorted_indices.extend(batch) for every batch in order; the batches are
\* taken half by half.
RECURSIVE FlattenSorted(_)
FlattenSorted(batches) ==
    IF batches = <<>> THEN <<>>
    ELSE IF Len(batches) = 1 THEN batches[1]
    ELSE FlattenSorted(SubSeq(batches, 1, Len(batches) \div 2))
         \o FlattenSorted(SubSeq(batches, Len(batches) \div 2 + 1, Len(batches)))

\* batch_offsets: current_offset before every batch and after the last.
RECURSIVE FlattenOffsets(_, _)
FlattenOffsets(batches, current_offset) ==
    IF batches = <<>> THEN <<current_offset>>
    ELSE IF Len(batches) = 1 THEN <<current_offset, current_offset + Len(batches[1])>>
    ELSE Bind(FlattenOffsets(SubSeq(batches, 1, Len(batches) \div 2), current_offset),
              LAMBDA left :
                  left \o Tail(FlattenOffsets(
                              SubSeq(batches, Len(batches) \div 2 + 1, Len(batches)),
                              left[Len(left)])))

flatten_batches(batch_indices) ==
    [sorted_indices |-> FlattenSorted(batch_indices),
     batch_offsets  |-> FlattenOffsets(batch_indices, 0)]

color_constraints(constraints, overflow_checks) ==
    LET r == GreedyLoop(constraints, <<>>, overflow_checks) IN
    IF r.panic THEN [panic |-> TRUE, sorted_indices |-> <<>>, batch_offsets |-> <<>>]
    ELSE [panic |-> FALSE] @@ flatten_batches(BatchIndices(r.colors))

color_constraints_3(constraints, overflow_checks) ==
    LET r == GreedyLoop(constraints, <<>>, overflow_checks) IN
    IF r.panic THEN [panic |-> TRUE, sorted_indices |-> <<>>, batch_offsets |-> <<>>]
    ELSE [panic |-> FALSE] @@ flatten_batches(BatchIndices(r.colors))

\* Batch b (1-based) of a colored list: the records at positions
\* batch_offsets[b] .. batch_offsets[b+1]-1 (0-based in the code).
BatchRange(batch_offsets, b) == (batch_offsets[b] + 1)..batch_offsets[b + 1]

NumBatches(batch_offsets) == IF Len(batch_offsets) = 0 THEN 0 ELSE Len(batch_offsets) - 1

\* No particle index occurs in two different records of one batch.
BatchesDisjoint(records, batch_offsets) ==
    \A b \in 1..NumBatches(batch_offsets) :
        \A k1, k2 \in BatchRange(batch_offsets, b) :
            k1 # k2 => Range(records[k1]) \cap Range(records[k2]) = {}

----------------------------------------------------------------------------
(* Specification SpecColor: calls of color_constraints and                 *)
(* color_constraints_3 on bounded inputs.                                  *)

\* Particles of the enumerated constraint lists.
ColorParticles == 3

\* Longest enumerated list of 2-particle constraints.
MaxCons2 == 3

\* Longest enumerated list of 3-particle constraints.
MaxCons3 == 2

\* Largest fan: one hub particle with this many incident constraints.
MaxFan == 66

SeqsUpTo(S, n) == UNION {[1..k -> S] : k \in 0..n}

Pairs2 == {<<a, b>> : a, b \in 0..(ColorParticles - 1)}

Triples3 == {<<a, b, c>> : a, b, c \in 0..(ColorParticles - 1)}

\* Constraints hub-1, hub-2, ..., hub-n (hub = particle 0).
Fan2(n) == [k \in 1..n |-> <<0, k>>]

Fan3(n) == [k \in 1..n |-> <<0, 2 * k - 1, 2 * k>>]

FanSizes == {MaxFan - 3, MaxFan - 2, MaxFan - 1, MaxFan}

ColorInputs ==
    [arity : {2}, constraints : SeqsUpTo(Pairs2, MaxCons2) \cup {Fan2(n) : n \in FanSizes}]
    \cup
    [arity : {3}, constraints : SeqsUpTo(Triples3, MaxCons3) \cup {Fan3(n) : n \in FanSizes}]

ColInit ==
    /\ \E inp \in ColorInputs, oc \in BOOLEAN :
          col = [pc |-> "call", arity |-> inp.arity, constraints |-> inp.constraints,
                 overflow_checks |-> oc]
    /\ OthersIdle({"col"})

ColorCall2 ==
    /\ col.pc = "call" /\ col.arity = 2
    /\ col' = [col EXCEPT !.pc = "returned"]
              @@ [out |-> color_constraints(col.constraints, col.overflow_checks)]
    /\ OthersUnchanged({"col"})

ColorCall3 ==
    /\ col.pc = "call" /\ col.arity = 3
    /\ col' = [col EXCEPT !.pc = "returned"]
              @@ [out |-> color_constraints_3(col.constraints, col.overflow_checks)]
    /\ OthersUnchanged({"col"})

ColNext == ColorCall2 \/ ColorCall3

SpecColor == ColInit /\ [][ColNext]_vars

\* The constraint list in the order the caller stores it: raw constraint
\* sorted_indices[k] at position k.
ColSorted == [k \in 1..Len(col.out.sorted_indices) |-> col.constraints[col.out.sorted_indices[k]]]

ColReturned == col.pc = "returned" /\ ~col.out.panic

\* C2: whenever color_constraints or color_constraints_3 returns, no
\* particle index appears in two different constraints of one returned
\* batch -- for every input, fans of more than 64 constraints included.
C2_BatchesDisjoint ==
    ColReturned => BatchesDisjoint(ColSorted, col.out.batch_offsets)

----------------------------------------------------------------------------
(* collision/exclusion.rs *)

\* Option<FxHashSet<u32>>
NoneSet == [some |-> FALSE]

SomeSet(S) == [some |-> TRUE, set |-> S]

\* The adjacency list built from the triangle index buffer: the corners of
\* each triangle t = indices[3t], indices[3t+1], indices[3t+2] are linked
\* pairwise.  (indices is 1-based here.)
ExclAdjacency(indices, particle_count) ==
    LET num_triangles == Len(indices) \div 3
        Corners(t) == {indices[3 * t - 2], indices[3 * t - 1], indices[3 * t]}
    IN [p \in 0..(particle_count - 1) |->
           UNION {IF p \in {indices[3 * t - 2], indices[3 * t - 1]} THEN Corners(t) ELSE {}
                  : t \in 1..num_triangles}
           \cup
           UNION {IF p = indices[3 * t] THEN {indices[3 * t - 2], indices[3 * t - 1]} ELSE {}
                  : t \in 1..num_triangles}]

\* The ring loop: `rings` more rounds of frontier expansion.
RECURSIVE ExclRings(_, _, _, _)
ExclRings(adjacency, frontier, visited, rings) ==
    IF rings = 0 THEN visited
    ELSE LET next_frontier == UNION {adjacency[node] : node \in frontier} \ visited
         IN ExclRings(adjacency, next_frontier, visited \cup next_frontier, rings - 1)

ExclVisited(adjacency, i, ring_depth) == ExclRings(adjacency, {i}, {i}, ring_depth)

\* TopologyExclusion::new.  masks[i] is the set of bit positions set in the
\* u64 mask of particle i.
TopologyExclusion_new(indices, particle_count, ring_depth) ==
    LET adjacency == ExclAdjacency(indices, particle_count)
        visited == [i \in 0..(particle_count - 1) |-> ExclVisited(adjacency, i, ring_depth)]
    IN [masks |-> [i \in 0..(particle_count - 1) |-> {v \in visited[i] : v < WordBits}],
        extended |-> [i \in 0..(particle_count - 1) |->
                        IF (\E v \in visited[i] : v >= WordBits)
                           \/ Cardinality(visited[i]) > WordBits
                        THEN SomeSet(visited[i]) ELSE NoneSet],
        ring_depth |-> ring_depth]

\* should_exclude without the extended sets: the bitmask path only.
should_exclude_masks_only(excl, i, j) ==
    IF j < WordBits THEN j \in excl.masks[i] ELSE FALSE

should_exclude(excl, i, j) ==
    IF j < WordBits THEN j \in excl.masks[i]
    ELSE IF excl.extended[i].some THEN j \in excl.extended[i].set
    ELSE FALSE

----------------------------------------------------------------------------
(* Specification SpecExcl: TopologyExclusion::new on bounded meshes,       *)
(* followed by should_exclude queries.                                     *)

\* Particles of the meshes (ids on both sides of the mask width).
ExclParticleCount == 68

\* Most triangles in a mesh.
MaxTris == 3

\* Largest ring depth.
MaxDepth == 3

\* The triangles meshes are assembled from: a strip 0-1-2-63-64-65 that
\* crosses the mask width, a triangle closing it, and a degenerate one.
TriPool ==
    {<<0, 1, 2>>, <<1, 2, 63>>, <<2, 63, 64>>, <<63, 64, 65>>, <<64, 65, 0>>,
     <<65, 1, 64>>, <<0, 1, 0>>}

RECURSIVE ConcatAll(_)
ConcatAll(ss) == IF ss = <<>> THEN <<>> ELSE Head(ss) \o ConcatAll(Tail(ss))

ExclMeshes == {ConcatAll(m) : m \in SeqsUpTo(TriPool, MaxTris)}

ExclInit ==
    /\ \E m \in ExclMeshes, d \in 0..MaxDepth :
          ex = [pc |-> "mesh", indices |-> m, particle_count |-> ExclParticleCount,
                ring_depth |-> d]
    /\ OthersIdle({"ex"})

ExclNew ==
    /\ ex.pc = "mesh"
    /\ ex' = [ex EXCEPT !.pc = "built"]
             @@ [excl |-> TopologyExclusion_new(ex.indices, ex.particle_count, ex.ring_depth),
                 query |-> <<>>]
    /\ OthersUnchanged({"ex"})

\* One should_exclude(i, j) call; the answer is recorded.
ExclQuery ==
    /\ ex.pc = "built"
    /\ ex.query = <<>>
    /\ \E i \in {1, WordBits}, j \in {2, WordBits} :
          ex' = [ex EXCEPT !.query = <<i, j, should_exclude(ex.excl, i, j)>>]
    /\ OthersUnchanged({"ex"})

ExclNext == ExclNew \/ ExclQuery

SpecExcl == ExclInit /\ [][ExclNext]_vars

\* The triangles of the mesh, as sets of corners.
ExclTriangles == {{ex.indices[3 * t - 2], ex.indices[3 * t - 1], ex.indices[3 * t]}
                  : t \in 1..(Len(ex.indices) \div 3)}

\* The particles one hop from i: the other corners of its triangles.
ExclHop(tris, i) == UNION {t : t \in {u \in tris : i \in u}} \ {i}

\* The particles reachable from i in at most d hops along triangle edges
\* (0 hops: i itself).
RECURSIVE ExclReachable(_, _, _)
ExclReachable(tris, i, d) ==
    IF d = 0 THEN {i}
    ELSE {i} \cup UNION {ExclReachable(tris, k, d - 1) : k \in ExclHop(tris, i)}

ExclBuilt == ex.pc = "built"

ExclAnswer(i, j) == should_exclude(ex.excl, i, j)

\* The mesh is exactly two proper triangles with the given number of
\* common corners.
ExclTwoTriangles(common) ==
    /\ Len(ex.indices) = 6
    /\ Cardinality(ExclTriangles) = 2
    /\ \A t \in ExclTriangles : Cardinality(t) = 3
    /\ \E t1, t2 \in ExclTriangles : t1 # t2 /\ Cardinality(t1 \cap t2) = common

\* C7: for every mesh, ring depth d and particles i, j (below and above
\* index 64) should_exclude(i, j) holds exactly when j is within d hops of
\* i along triangle edges; the corners of a triangle exclude each other at
\* depth 1; in a mesh of two triangles sharing an edge the two apexes are
\* excluded at depth 2 and not at depth 1; in a mesh of two disjoint
\* triangles no particle of one excludes a particle of the other.
C7_ExcludeIsRingReachability ==
    ExclBuilt =>
        /\ LET tris == ExclTriangles IN
           \A i \in 0..(ex.particle_count - 1) :
              {j \in 0..(ex.particle_count - 1) : ExclAnswer(i, j)}
                  = ExclReachable(tris, i, ex.ring_depth)
        /\ ex.ring_depth = 1 =>
              \A t \in ExclTriangles : \A i, j \in t : ExclAnswer(i, j)
        /\ ExclTwoTriangles(2) =>
              \A t1, t2 \in ExclTriangles : \A a \in t1 \ t2, b \in t2 \ t1 :
                  /\ ex.ring_depth = 2 => ExclAnswer(a, b)
                  /\ ex.ring_depth = 1 => ~ExclAnswer(a, b)
        /\ ExclTwoTriangles(0) =>
              \A t1, t2 \in ExclTriangles : \A a \in t1 \ t2, b \in t2 \ t1 :
                  ~ExclAnswer(a, b)

\* Two triangles sharing edge 2-63, depth 2: apex 1 excludes apex 64, an
\* index beyond the mask, and 64 excludes 1.
C7_Witness ==
    /\ ExclBuilt
    /\ ex.indices = <<1, 2, 63, 2, 63, 64>>
    /\ ex.ring_depth = 2
    /\ ex.query = <<1, 64, TRUE>>
    /\ ExclAnswer(64, 1)

----------------------------------------------------------------------------
(* collision/spatial/dynamic.rs *)

\* Cell coordinates are offset by this much before masking.
MortonOffset == 512

\* 0x3FF + 1: each cell coordinate keeps 10 bits.
MortonRange == 1024

\* morton_encode.  expand_bits spreads the 10 kept bits of each coordinate
\* over disjoint bit positions of the key, so two keys are equal exactly
\* when the three masked coordinates are: the key is modelled as that triple.
morton_encode(x, y, z) ==
    <<(x + MortonOffset) % MortonRange,
      (y + MortonOffset) % MortonRange,
      (z + MortonOffset) % MortonRange>>

\* HierarchicalSpatialHash::new.  A grid maps the keys it holds to the id
\* list of the cell.
HierarchicalSpatialHash_new(collision_radius) ==
    [fine_cell_size |-> collision_radius * 2,
     coarse_cell_size |-> collision_radius * 2 * 4,
     fine_grid |-> <<>>,
     coarse_grid |-> <<>>]

\* A clear that empties the cells of the coarse grid only.
hash_clear_coarse_only(h) ==
    [h EXCEPT !.coarse_grid = [k \in DOMAIN h.coarse_grid |-> <<>>]]

\* clear: every cell is emptied, its key stays in the map.
hash_clear(h) ==
    [h EXCEPT !.fine_grid = [k \in DOMAIN h.fine_grid |-> <<>>],
              !.coarse_grid = [k \in DOMAIN h.coarse_grid |-> <<>>]]

\* (p / cell_size).floor() for the point (0, y, 0).
get_fine_cell(h, y) == <<0, y \div h.fine_cell_size, 0>>

get_coarse_cell(h, y) == <<0, y \div h.coarse_cell_size, 0>>

\* grid.entry(key).or_default().push(id)
GridPush(grid, key, id) ==
    IF key \in DOMAIN grid THEN [grid EXCEPT ![key] = Append(@, id)]
    ELSE grid @@ (key :> <<id>>)

insert_point(h, id, y) ==
    LET fine_cell == get_fine_cell(h, y)
        coarse_cell == get_coarse_cell(h, y)
    IN [h EXCEPT
          !.fine_grid = GridPush(h.fine_grid, morton_encode(fine_cell[1], fine_cell[2], fine_cell[3]), id),
          !.coarse_grid = GridPush(h.coarse_grid, morton_encode(coarse_cell[1], coarse_cell[2], coarse_cell[3]), id)]

\* The coarse early-out of query: the coarse cell of p or one of its 26
\* neighbours holds a key.
CoarsePresent(h, y) ==
    LET coarse_cell == get_coarse_cell(h, y) IN
    \/ morton_encode(coarse_cell[1], coarse_cell[2], coarse_cell[3]) \in DOMAIN h.coarse_grid
    \/ \E dz \in -1..1, dy \in -1..1, dx \in -1..1 :
          morton_encode(coarse_cell[1] + dx, coarse_cell[2] + dy, coarse_cell[3] + dz)
              \in DOMAIN h.coarse_grid

\* The coordinates in lo..hi whose masked value is k.
MaskedInverse(k, lo, hi) == {v \in lo..hi : (v + MortonOffset) % MortonRange = k}

\* The cells of the box min..max whose key is held by the fine grid.
HeldCells(h, min_c, max_c) ==
    UNION {{<<x, y, z>> : x \in MaskedInverse(k[1], min_c[1], max_c[1]),
                          y \in MaskedInverse(k[2], min_c[2], max_c[2]),
                          z \in MaskedInverse(k[3], min_c[3], max_c[3])}
           : k \in DOMAIN h.fine_grid}

\* Loop order of the fine query: z outermost, then y, then x.
CellBefore(a, b) ==
    \/ a[3] < b[3]
    \/ a[3] = b[3] /\ a[2] < b[2]
    \/ a[3] = b[3] /\ a[2] = b[2] /\ a[1] < b[1]

RECURSIVE CellsInLoopOrder(_)
CellsInLoopOrder(cells) ==
    IF cells = {} THEN <<>>
    ELSE LET first == CHOOSE c \in cells : \A d \in cells \ {c} : CellBefore(c, d)
         IN <<first>> \o CellsInLoopOrder(cells \ {first})

\* buffer.push(id) for every id not yet in dedup_set.
PushDedup(buffer, ids) ==
    LET fresh == SelectIdx(Len(ids), LAMBDA k :
                     /\ ids[k] \notin Range(buffer)
                     /\ \A m \in 1..(k - 1) : ids[m] # ids[k])
    IN buffer \o [j \in 1..Len(fresh) |-> ids[fresh[j]]]

RECURSIVE CollectCells(_, _, _)
CollectCells(h, cells, buffer) ==
    IF cells = <<>> THEN buffer
    ELSE LET c == Head(cells) IN
         CollectCells(h, Tail(cells),
                      PushDedup(buffer, h.fine_grid[morton_encode(c[1], c[2], c[3])]))

\* HierarchicalSpatialHash::query for the point (0, y, 0): the buffer.
hash_query(h, y, radius) ==
    IF ~CoarsePresent(h, y) THEN <<>>
    ELSE LET lo == (0 - radius) \div h.fine_cell_size
             hi == radius \div h.fine_cell_size
             min_c == <<lo, (y - radius) \div h.fine_cell_size, lo>>
             max_c == <<hi, (y + radius) \div h.fine_cell_size, hi>>
         IN CollectCells(h, CellsInLoopOrder(HeldCells(h, min_c, max_c)), <<>>)

----------------------------------------------------------------------------
(* Specification SpecHash: a HierarchicalSpatialHash that is filled,       *)
(* cleared, refilled and queried.                                          *)

\* The collision radius SelfCollision::new passes (config.thickness, 5 mm).
HashRadius == 50000

\* Most points held at a time.
MaxPoints == 2

\* Most clear() calls.
MaxClears == 1

\* Point and query coordinates: inside one fine cell, in neighbouring
\* cells, two coarse cells away, and 1024 fine cells away (same key).
HashCoords == {-850000, -20000, 0, 30000, 420000, 850000, 102400000}

\* Query radii: up to the fine cell size, the coarse cell size, and beyond.
HashRadii == {0, 50000, 100000, 400000, 900000}

NoQuery == <<>>

\* points: the latest coordinate of every id inserted since the latest
\* clear; stale: the coordinate of every id inserted before it; ids: the
\* number of ids used so far; calls: the insert_point calls since the
\* latest clear.
HashInit ==
    /\ hh = [pc |-> "ready", h |-> HierarchicalSpatialHash_new(HashRadius),
             points |-> <<>>, stale |-> <<>>, ids |-> 0, calls |-> 0, clears |-> 0,
             q |-> NoQuery, buffer |-> <<>>]
    /\ OthersIdle({"hh"})

\* insert_point(id, (0, y, 0)) with an id not used before, as the tests
\* do, or once more with an id the hash holds already.
HashInsert ==
    /\ hh.pc = "ready" /\ hh.q = NoQuery
    /\ hh.calls < MaxPoints
    /\ \E y \in HashCoords, id \in {hh.ids} \cup DOMAIN hh.points :
          hh' = [hh EXCEPT !.h = insert_point(hh.h, id, y),
                           !.points = (id :> y) @@ @,
                           !.ids = IF id = hh.ids THEN @ + 1 ELSE @,
                           !.calls = @ + 1]
    /\ OthersUnchanged({"hh"})

HashClear ==
    /\ hh.pc = "ready" /\ hh.q = NoQuery
    /\ hh.clears < MaxClears
    /\ hh' = [hh EXCEPT !.h = hash_clear(hh.h), !.points = <<>>,
                        !.stale = @ @@ hh.points, !.calls = 0, !.clears = @ + 1]
    /\ OthersUnchanged({"hh"})

HashQuery ==
    /\ hh.pc = "ready" /\ hh.q = NoQuery
    /\ \E y \in HashCoords, radius \in HashRadii :
          hh' = [hh EXCEPT !.q = <<y, radius>>, !.buffer = hash_query(hh.h, y, radius)]
    /\ OthersUnchanged({"hh"})

HashNext == HashInsert \/ HashClear \/ HashQuery

SpecHash == HashInit /\ [][HashNext]_vars

\* The ids of the held points within radius of the query point.
HashInRange == {id \in DOMAIN hh.points : Abs(hh.points[id] - hh.q[1]) <= hh.q[2]}

\* C9: after a query, every inserted point whose distance from the query
\* point is at most the radius is in the returned buffer.
C9_QueryReturnsAllInRange ==
    hh.pc = "ready" /\ hh.q # NoQuery => HashInRange \subseteq Range(hh.buffer)

----------------------------------------------------------------------------
(* collision/self_collision *)

\* SelfCollisionConfig::default().thickness, 0.005 m.
SelfThickness == 50000

\* SelfCollisionConfig::default().stiffness, 0.5, in thousandths.
SelfStiffness == 500

\* SelfCollisionConfig::default().max_pairs
DefaultMaxPairs == 10000

\* SelfCollisionConfig::default().frequency and config.self_collision_frequency
SelfFrequency == 2

\* Ring depth SelfCollision::new builds its exclusion with.
SelfRingDepth == 2

\* dist_sq > 1e-9 m^2 holds from this distance on (316^2 < 10^5 < 317^2).
PairFloor == 317

\* A fraction given in thousandths.
Thousand == 1000

\* SelfCollision::new
SelfCollision_new(indices, count, config) ==
    [hash |-> HierarchicalSpatialHash_new(config.thickness),
     exclusion |-> TopologyExclusion_new(indices, count, SelfRingDepth),
     config |-> config,
     collision_pairs |-> <<>>,
     batch_offsets |-> <<>>,
     particle_count |-> count]

\* hash.clear() followed by insert_point(i, positions[i]) for i in 0..count.
RECURSIVE RebuildHash(_, _, _, _)
RebuildHash(h, positions, i, count) ==
    IF i >= count THEN h
    ELSE IF count - i = 1 THEN insert_point(h, i, positions[i])
    ELSE Bind(RebuildHash(h, positions, i, (i + count) \div 2),
              LAMBDA filled : RebuildHash(filled, positions, (i + count) \div 2, count))

\* A pair test without `if i >= j { continue; }`.
IsPair_unordered(self, positions, i, j) ==
    /\ i # j
    /\ ~should_exclude(self.exclusion, i, j)
    /\ Abs(positions[i] - positions[j]) < self.config.thickness
    /\ Abs(positions[i] - positions[j]) >= PairFloor

\* The test a candidate j of particle i has to pass to become a pair.
IsPair(self, positions, i, j) ==
    /\ i < j
    /\ ~should_exclude(self.exclusion, i, j)
    /\ Abs(positions[i] - positions[j]) < self.config.thickness
    /\ Abs(positions[i] - positions[j]) >= PairFloor

\* The pairs one particle contributes (local_pairs of the parallel map).
LocalPairs(self, h, positions, i) ==
    LET query_buffer == hash_query(h, positions[i], self.config.thickness)
        kept == SelectSeq(query_buffer, LAMBDA j : IsPair(self, positions, i, j))
    IN [k \in 1..Len(kept) |-> <<i, kept[k]>>]

\* The serial inner loop: push, then break once the cap is reached.
\* The entries of `found` are taken half by half; the cap is tested after
\* every push that has an entry left to follow it.
RECURSIVE PushUntilCap(_, _, _)
PushUntilCap(pairs, found, max_pairs) ==
    IF found = <<>> THEN pairs
    ELSE IF Len(found) = 1 THEN Append(pairs, found[1])
    ELSE Bind(PushUntilCap(pairs, SubSeq(found, 1, Len(found) \div 2), max_pairs),
              LAMBDA pushed :
                  IF Len(pushed) >= max_pairs THEN pushed
                  ELSE PushUntilCap(pushed,
                                    SubSeq(found, Len(found) \div 2 + 1, Len(found)),
                                    max_pairs))

\* The serial outer loop over particles i..count-1.
RECURSIVE DetectSerial(_, _, _, _, _, _)
DetectSerial(self, h, positions, i, count, pairs) ==
    IF i >= count THEN pairs
    ELSE LET after == PushUntilCap(pairs, LocalPairs(self, h, positions, i), self.config.max_pairs)
         IN IF Len(after) >= self.config.max_pairs THEN after
            ELSE DetectSerial(self, h, positions, i + 1, count, after)

\* The parallel map, flattened in particle order, then capped.
RECURSIVE DetectAll(_, _, _, _, _)
DetectAll(self, h, positions, i, count) ==
    IF i >= count THEN <<>>
    ELSE IF count - i = 1 THEN LocalPairs(self, h, positions, i)
    ELSE DetectAll(self, h, positions, i, (i + count) \div 2)
         \o DetectAll(self, h, positions, (i + count) \div 2, count)

DetectParallel(self, h, positions, count) ==
    LET results == DetectAll(self, h, positions, 0, count) IN
    IF Len(results) > self.config.max_pairs
    THEN SubSeq(results, 1, self.config.max_pairs)
    ELSE results

\* SelfCollision::detect_pairs; `parallel` is the cargo feature.
detect_pairs(self, positions, count, parallel) ==
    LET h == RebuildHash(hash_clear(self.hash), positions, 0, count) IN
    [self EXCEPT !.hash = h,
                 !.collision_pairs =
                     IF parallel THEN DetectParallel(self, h, positions, count)
                     ELSE DetectSerial(self, h, positions, 0, count, <<>>)]

\* The greedy loop of color_pairs: colors of 64 and above are not entered
\* into used_colors.
\* The pairs not yet colored are taken half by half: the color of a pair
\* depends on the pairs before it only.
RECURSIVE PairGreedyLoop(_, _)
PairGreedyLoop(pairs, colors) ==
    LET idx == Len(colors) + 1
        left == Len(pairs) - Len(colors)
    IN
    IF idx > Len(pairs) THEN colors
    ELSE IF left = 1
    THEN LET used_colors == {c \in NeighborColors(pairs, colors, idx) : c < WordBits}
         IN Append(colors, TrailingZerosNot(used_colors))
    ELSE Bind(PairGreedyLoop(SubSeq(pairs, 1, Len(colors) + left \div 2), colors),
              LAMBDA half : PairGreedyLoop(pairs, half))

\* SelfCollision::color_pairs
color_pairs(self) ==
    IF self.collision_pairs = <<>> THEN [self EXCEPT !.batch_offsets = <<>>]
    ELSE LET flat == flatten_batches(BatchIndices(PairGreedyLoop(self.collision_pairs, <<>>)))
         IN [self EXCEPT
               !.batch_offsets = flat.batch_offsets,
               !.collision_pairs = [k \in 1..Len(flat.sorted_indices) |->
                                       self.collision_pairs[flat.sorted_indices[k]]]]

\* A displacement that takes the whole overlap whatever the stiffness.
PairCorrection_rigid(pa, pb, wa, wb, stiffness, thickness) ==
    Sign(pa - pb) * Div((thickness - Abs(pa - pb)) * wa, wa + wb)

\* The displacement both kernels give particle `a` of a pair (a, b) read at
\* positions pa, pb: normal * overlap * stiffness * w_a / (w_a + w_b).
PairCorrection(pa, pb, wa, wb, stiffness, thickness) ==
    Sign(pa - pb) * Div((thickness - Abs(pa - pb)) * stiffness * wa, Thousand * (wa + wb))

\* SelfCollision::resolve_single
resolve_single(positions, inv_mass, pair, stiffness, thickness) ==
    LET i == pair[1]
        j == pair[2]
        dist == Abs(positions[i] - positions[j])
        w1 == inv_mass[i]
        w2 == inv_mass[j]
    IN IF dist = 0 THEN positions
       ELSE IF thickness - dist <= 0 THEN positions
       ELSE IF ~(w1 + w2 > 0) THEN positions
       ELSE LET ci == PairCorrection(positions[i], positions[j], w1, w2, stiffness, thickness)
                cj == PairCorrection(positions[i], positions[j], w2, w1, stiffness, thickness)
                moved_i == IF w1 > 0 THEN [positions EXCEPT ![i] = @ + ci] ELSE positions
            IN IF w2 > 0 THEN [moved_i EXCEPT ![j] = @ - cj] ELSE moved_i

\* One lane of resolve_simd_4: the corrections are computed from the
\* positions loaded at the start (`loaded`), and added to the current ones.
ResolveLane(positions, loaded, inv_mass, pair, stiffness, thickness) ==
    LET i == pair[1]
        j == pair[2]
        dist == Abs(loaded[i] - loaded[j])
        positive_overlap == IF thickness - dist > 0 THEN thickness - dist ELSE 0
        w_i == inv_mass[i]
        w_j == inv_mass[j]
        corr_i == IF w_i + w_j = 0 THEN 0
                  ELSE Sign(loaded[i] - loaded[j])
                       * Div(positive_overlap * stiffness * w_i, Thousand * (w_i + w_j))
        corr_j == IF w_i + w_j = 0 THEN 0
                  ELSE Sign(loaded[i] - loaded[j])
                       * Div(positive_overlap * stiffness * w_j, Thousand * (w_i + w_j))
        moved_i == IF w_i > 0 THEN [positions EXCEPT ![i] = @ + corr_i] ELSE positions
    IN IF w_j > 0 THEN [moved_i EXCEPT ![j] = @ - corr_j] ELSE moved_i

\* SelfCollision::resolve_simd_4 on the four pairs at base .. base+3.
resolve_simd_4(positions, inv_mass, pairs, base, stiffness, thickness) ==
    LET l0 == ResolveLane(positions, positions, inv_mass, pairs[base], stiffness, thickness)
        l1 == ResolveLane(l0, positions, inv_mass, pairs[base + 1], stiffness, thickness)
        l2 == ResolveLane(l1, positions, inv_mass, pairs[base + 2], stiffness, thickness)
    IN ResolveLane(l2, positions, inv_mass, pairs[base + 3], stiffness, thickness)

RECURSIVE ResolveChunks(_, _, _, _, _, _)
ResolveChunks(self, positions, inv_mass, start, chunk, chunks) ==
    IF chunk >= chunks THEN positions
    ELSE ResolveChunks(self,
             resolve_simd_4(positions, inv_mass, self.collision_pairs, start + chunk * 4 + 1,
                            self.config.stiffness, self.config.thickness),
             inv_mass, start, chunk + 1, chunks)

RECURSIVE ResolveRemainder(_, _, _, _, _)
ResolveRemainder(self, positions, inv_mass, k, end) ==
    IF k >= end THEN positions
    ELSE ResolveRemainder(self,
             resolve_single(positions, inv_mass, self.collision_pairs[k + 1],
                            self.config.stiffness, self.config.thickness),
             inv_mass, k + 1, end)

\* The batch loop of resolve_batched, from batch b (0-based) on.
\* The batches left are taken half by half, the second half on the
\* positions the first half has written.
RECURSIVE ResolveBatches(_, _, _, _)
ResolveBatches(self, positions, inv_mass, b) ==
    IF b >= NumBatches(self.batch_offsets) THEN positions
    ELSE IF NumBatches(self.batch_offsets) - b = 1
    THEN LET start == self.batch_offsets[b + 1]
             end == self.batch_offsets[b + 2]
             chunks == (end - start) \div 4
             simd == ResolveChunks(self, positions, inv_mass, start, 0, chunks)
         IN ResolveRemainder(self, simd, inv_mass, start + chunks * 4, end)
    ELSE LET mid == b + (NumBatches(self.batch_offsets) - b) \div 2 IN
         Bind(ResolveBatches([self EXCEPT !.batch_offsets = SubSeq(@, 1, mid + 1)],
                             positions, inv_mass, b),
              LAMBDA written : ResolveBatches(self, written, inv_mass, mid))

resolve_batched(self, positions, inv_mass) == ResolveBatches(self, positions, inv_mass, 0)

\* SelfCollision::solve: detect, and if there are pairs, color and resolve.
SelfCollision_solve(self, positions, inv_mass, count, parallel) ==
    LET detected == detect_pairs(self, positions, count, parallel) IN
    IF detected.collision_pairs = <<>>
    THEN [self |-> detected, positions |-> positions]
    ELSE LET colored == color_pairs(detected) IN
         [self |-> colored, positions |-> resolve_batched(colored, positions, inv_mass)]

----------------------------------------------------------------------------
(* Specification SpecSelf: a SelfCollision over particles on the Y axis,   *)
(* taken through detect_pairs, color_pairs and resolve_batched as          *)
(* SelfCollision::solve calls them.                                        *)

\* Most particles in the enumerated configurations.
SelfMaxCount == 3

\* Most solve() rounds.
MaxSolves == 2

\* Particle coordinates: 20 um, 2 mm, 4 mm and 7 mm from the origin.
SelfCoords == {0, 200, 20000, 40000, 70000}

\* Spacing of the particles of a crowded configuration (40 um).
FanSpacing == 400

\* The enumerated max_pairs settings.
SelfCaps == {0, 1, 2, DefaultMaxPairs}

SelfConfig(max_pairs) ==
    [thickness |-> SelfThickness, stiffness |-> SelfStiffness, frequency |-> SelfFrequency,
     max_pairs |-> max_pairs]

\* Small configurations: a few particles, pinned or free, with or without
\* a triangle joining the first three.
SelfSmallInputs ==
    {[count |-> n, positions |-> pos, inv_mass |-> w, indices |-> idx, max_pairs |-> cap] :
        n \in 2..SelfMaxCount,
        pos \in UNION {[0..(m - 1) -> SelfCoords] : m \in 2..SelfMaxCount},
        w \in UNION {[0..(m - 1) -> {0, 1}] : m \in 2..SelfMaxCount},
        idx \in {<<>>, <<0, 1, 2>>},
        cap \in SelfCaps}

\* Crowded configurations: MaxFan + 1 free particles within the thickness
\* of particle 0, no triangles.
SelfFanInputs ==
    {[count |-> MaxFan + 1,
      positions |-> [k \in 0..MaxFan |-> k * FanSpacing],
      inv_mass |-> [k \in 0..MaxFan |-> 1],
      indices |-> <<>>,
      max_pairs |-> cap] : cap \in {MaxFan - 2, MaxFan - 1, MaxFan}}

\* A triangle 0-1-2 with its corners 2 mm apart and the loose particle 3
\* next to corner 2 or far away.
SelfMixedInputs ==
    {[count |-> 4,
      positions |-> (0 :> 0 @@ 1 :> 20000 @@ 2 :> 40000 @@ 3 :> p3),
      inv_mass |-> [k \in 0..3 |-> 1],
      indices |-> <<0, 1, 2>>,
      max_pairs |-> cap] : p3 \in {41000, 2000000}, cap \in {1, DefaultMaxPairs}}

SelfInputs ==
    {inp \in SelfSmallInputs :
        /\ DOMAIN inp.positions = 0..(inp.count - 1)
        /\ DOMAIN inp.inv_mass = 0..(inp.count - 1)
        /\ (inp.indices # <<>> => inp.count >= 3)}
    \cup SelfFanInputs \cup SelfMixedInputs

SelfInit ==
    /\ \E inp \in SelfInputs, parallel \in BOOLEAN :
          sc = [pc |-> "idle",
                self |-> SelfCollision_new(inp.indices, inp.count, SelfConfig(inp.max_pairs)),
                positions |-> inp.positions, inv_mass |-> inp.inv_mass, count |-> inp.count,
                indices |-> inp.indices, parallel |-> parallel, solves |-> 0]
    /\ OthersIdle({"sc"})

SelfDetect ==
    /\ sc.pc = "idle"
    /\ sc.solves < MaxSolves
    /\ sc' = [sc EXCEPT !.self = detect_pairs(sc.self, sc.positions, sc.count, sc.parallel),
                        !.pc = "detected",
                        !.solves = @ + 1]
    /\ OthersUnchanged({"sc"})

\* has_pairs is false: solve returns.
SelfNoPairs ==
    /\ sc.pc = "detected"
    /\ sc.self.collision_pairs = <<>>
    /\ sc' = [sc EXCEPT !.pc = "idle"]
    /\ OthersUnchanged({"sc"})

SelfColor ==
    /\ sc.pc = "detected"
    /\ sc.self.collision_pairs # <<>>
    /\ sc' = [sc EXCEPT !.self = color_pairs(sc.self), !.pc = "colored"]
    /\ OthersUnchanged({"sc"})

SelfResolve ==
    /\ sc.pc = "colored"
    /\ sc' = [sc EXCEPT !.positions = resolve_batched(sc.self, sc.positions, sc.inv_mass),
                        !.pc = "idle"]
    /\ OthersUnchanged({"sc"})

SelfNext == SelfDetect \/ SelfNoPairs \/ SelfColor \/ SelfResolve

SpecSelf == SelfInit /\ [][SelfNext]_vars

\* C3: after color_pairs, no particle index occurs in two different pairs
\* of one batch batch_offsets[b] .. batch_offsets[b+1].
C3_PairBatchesDisjoint ==
    sc.pc = "colored" => BatchesDisjoint(sc.self.collision_pairs, sc.self.batch_offsets)

\* C10: after detect_pairs the number of stored pairs is at most max_pairs.
C10_PairsWithinCap ==
    sc.pc = "detected" => Len(sc.self.collision_pairs) <= sc.self.config.max_pairs

----------------------------------------------------------------------------
(* systems/constraints/distance *)

\* len < 1e-6 m: the scalar kernel leaves shorter edges alone.
MinEdgeLen == 10

\* PhysicsConfig::default().distance_compliance, in units of 1e-7.
DistanceCompliance == 1

\* The unordered edge the code files a triangle side (a, b) under when its
\* test is `a < b`.
EdgeKey(a, b) == IF a < b THEN <<a, b>> ELSE <<b, a>>

\* The keys of edge_counts after the triangle loop.
EdgeKeys(indices) ==
    UNION {{EdgeKey(indices[3 * t - 2], indices[3 * t - 1]),
            EdgeKey(indices[3 * t - 1], indices[3 * t]),
            EdgeKey(indices[3 * t], indices[3 * t - 2])} : t \in 1..(Len(indices) \div 3)}

\* The orders in which a std HashMap / HashSet holding S can be iterated:
\* every enumeration of S without repetition.
IterationOrders(S) == {o \in [1..Cardinality(S) -> S] : Range(o) = S}

\* a * b / d truncated toward zero, for b >= 0 and d > 0, without forming
\* the product a * b.
MulDiv(a, b, d) ==
    Sign(a) * ((Abs(a) \div d) * b + ((Abs(a) % d) * b) \div d)

\* compliance * dt_sq_inv in thousandths, for a compliance in units of
\* 1e-7 and dt in microseconds.
AlphaOf(compliance, dt) ==
    IF compliance < 20 THEN Div(compliance * 100000000, dt * dt)
    ELSE Div(compliance, Thousand) * Div(Thousand * Thousand * Thousand, dt * dt) * 100

\* DistanceConstraint::new.  `order` is the order in which edge_counts is
\* iterated.
DistanceConstraint_new(indices, positions, compliance, order, overflow_checks) ==
    LET colored == color_constraints(order, overflow_checks)
        n == Len(colored.sorted_indices)
    IN [panic |-> colored.panic,
        constraints |-> [k \in 1..n |-> order[colored.sorted_indices[k]]],
        rest_lengths |-> [k \in 1..n |->
            Abs(positions[order[colored.sorted_indices[k]][1]]
                - positions[order[colored.sorted_indices[k]][2]])],
        compliances |-> [k \in 1..n |-> compliance],
        batch_offsets |-> colored.batch_offsets]

\* direction * delta_lambda * omega * w for one end of constraint k, read
\* at positions p1, p2: -C * omega * w / (w_sum + alpha) along delta.
DistCorrection(dc, k, p1, p2, w, w_sum, dt, omega) ==
    Sign(p1 - p2)
    * MulDiv(0 - (Abs(p1 - p2) - dc.rest_lengths[k]), omega * w,
             w_sum * Thousand + AlphaOf(dc.compliances[k], dt))

\* A scalar kernel that applies twice the correction.
solve_single_doubled(dc, positions, inv_mass, k, dt, omega) ==
    LET i1 == dc.constraints[k][1]
        i2 == dc.constraints[k][2]
        w1 == inv_mass[i1]
        w2 == inv_mass[i2]
        corr == DistCorrection(dc, k, positions[i1], positions[i2], 1, w1 + w2, dt, 2 * omega)
    IN IF w1 + w2 = 0 THEN positions
       ELSE IF Abs(positions[i1] - positions[i2]) < MinEdgeLen THEN positions
       ELSE LET moved1 == IF w1 > 0 THEN [positions EXCEPT ![i1] = @ + corr * w1] ELSE positions
            IN IF w2 > 0 THEN [moved1 EXCEPT ![i2] = @ - corr * w2] ELSE moved1

\* DistanceConstraint::solve_single on constraint k (1-based).
solve_single(dc, positions, inv_mass, k, dt, omega) ==
    LET i1 == dc.constraints[k][1]
        i2 == dc.constraints[k][2]
        w1 == inv_mass[i1]
        w2 == inv_mass[i2]
        corr == DistCorrection(dc, k, positions[i1], positions[i2], 1, w1 + w2, dt, omega)
    IN IF w1 + w2 = 0 THEN positions
       ELSE IF Abs(positions[i1] - positions[i2]) < MinEdgeLen THEN positions
       ELSE LET moved1 == IF w1 > 0 THEN [positions EXCEPT ![i1] = @ + corr * w1] ELSE positions
            IN IF w2 > 0 THEN [moved1 EXCEPT ![i2] = @ - corr * w2] ELSE moved1

\* One lane of solve_simd_4: constraint k, corrections computed from the
\* positions the kernel loaded, added to the current ones.  No length test.
SolveLane(dc, positions, loaded, inv_mass, k, dt, omega) ==
    LET i1 == dc.constraints[k][1]
        i2 == dc.constraints[k][2]
        w1 == inv_mass[i1]
        w2 == inv_mass[i2]
        corr == IF w1 + w2 = 0 THEN 0
                ELSE DistCorrection(dc, k, loaded[i1], loaded[i2], 1, w1 + w2, dt, omega)
        moved1 == IF w1 > 0 THEN [positions EXCEPT ![i1] = @ + corr * w1] ELSE positions
    IN IF w2 > 0 THEN [moved1 EXCEPT ![i2] = @ - corr * w2] ELSE moved1

\* DistanceConstraint::solve_simd_4 on constraints base .. base+3.
solve_simd_4(dc, positions, inv_mass, base, dt, omega) ==
    LET l0 == SolveLane(dc, positions, positions, inv_mass, base, dt, omega)
        l1 == SolveLane(dc, l0, positions, inv_mass, base + 1, dt, omega)
        l2 == SolveLane(dc, l1, positions, inv_mass, base + 2, dt, omega)
    IN SolveLane(dc, l2, positions, inv_mass, base + 3, dt, omega)

RECURSIVE SolveChunks(_, _, _, _, _, _, _, _)
SolveChunks(dc, positions, inv_mass, start, chunk, chunks, dt, omega) ==
    IF chunk >= chunks THEN positions
    ELSE LET next == solve_simd_4(dc, positions, inv_mass, start + chunk * 4 + 1, dt, omega)
         IN IF next = positions
            THEN SolveChunks(dc, positions, inv_mass, start, chunk + 1, chunks, dt, omega)
            ELSE SolveChunks(dc, next, inv_mass, start, chunk + 1, chunks, dt, omega)

\* The scalar loop over constraints k .. end-1 (0-based).
RECURSIVE SolveRemainder(_, _, _, _, _, _, _)
SolveRemainder(dc, positions, inv_mass, k, end, dt, omega) ==
    IF k >= end THEN positions
    ELSE LET next == solve_single(dc, positions, inv_mass, k + 1, dt, omega)
         IN IF next = positions
            THEN SolveRemainder(dc, positions, inv_mass, k + 1, end, dt, omega)
            ELSE SolveRemainder(dc, next, inv_mass, k + 1, end, dt, omega)

\* One batch b (0-based) solved with the chunks one after another.
SolveBatch(dc, positions, inv_mass, b, dt, omega) ==
    LET start == dc.batch_offsets[b + 1]
        end == dc.batch_offsets[b + 2]
        chunks == (end - start) \div 4
    IN SolveRemainder(dc, SolveChunks(dc, positions, inv_mass, start, 0, chunks, dt, omega),
                      inv_mass, start + chunks * 4, end, dt, omega)

RECURSIVE SolveBatches(_, _, _, _, _, _)
SolveBatches(dc, positions, inv_mass, b, dt, omega) ==
    IF b >= NumBatches(dc.batch_offsets) THEN positions
    ELSE LET next == SolveBatch(dc, positions, inv_mass, b, dt, omega)
         IN IF next = positions
            THEN SolveBatches(dc, positions, inv_mass, b + 1, dt, omega)
            ELSE SolveBatches(dc, next, inv_mass, b + 1, dt, omega)

\* DistanceConstraint::solve without the `parallel` feature.
DistanceConstraint_solve(dc, positions, inv_mass, omega, dt) ==
    SolveBatches(dc, positions, inv_mass, 0, dt, omega)

----------------------------------------------------------------------------
(* Specification SpecDist: DistanceConstraint::solve on a constructed      *)
(* DistanceConstraint, serially or with one worker per 4-record chunk of   *)
(* the current batch (feature `parallel`).  A worker loads the positions   *)
(* of its four records, then writes them back lane by lane; the steps of   *)
(* different workers interleave freely.                                    *)

\* Triangles of the largest mesh of separate triangles.
DistMaxTriangles == 8

\* Triangles of the fan around particle 0 (one hub edge each).
DistFan == 72

\* Distance between the first corners of consecutive separate triangles.
DistGap == 10000

\* Spacing of the rim particles of the fan.
FanRim == 1000

\* The time step of a substep, microseconds: (1/60 s) / 8.
SubstepDt == 2083

\* omega of the first and of the second solver iteration, in thousandths.
DistOmegas == {1000, 1143}

\* Corner offsets of a separate triangle (its corners are collinear).
CornerOffset == <<0, 1000, 2500>>

\* What another system did to one particle since construction: nothing, a
\* small move, or a move to within 0.5 um of its neighbour.
DistShifts == {0, 300, -995}

SeparateTriangles(n) ==
    [indices |-> [k \in 1..(3 * n) |-> k - 1],
     positions |-> [q \in 0..(3 * n - 1) |-> (q \div 3) * DistGap + CornerOffset[(q % 3) + 1]]]

\* m folded triangles (0, t, 0), as in the index buffers of
\* tests/systems/constraints: the edges 0-t and the self edge 0-0.
FanMesh(m) ==
    [indices |-> [k \in 1..(3 * m) |-> IF k % 3 = 2 THEN (k + 1) \div 3 ELSE 0],
     positions |-> [q \in 0..m |-> q * FanRim]]

EdgeLess(a, b) == a[1] < b[1] \/ (a[1] = b[1] /\ a[2] < b[2])

RECURSIVE SortedEdges(_)
SortedEdges(S) ==
    IF S = {} THEN <<>>
    ELSE LET first == CHOOSE e \in S : \A f \in S \ {e} : EdgeLess(e, f)
         IN <<first>> \o SortedEdges(S \ {first})

Reversed(q) == [k \in 1..Len(q) |-> q[Len(q) + 1 - k]]

\* The iteration orders enumerated for a mesh: all of them for a single
\* triangle, the ascending and the descending one for larger meshes.
DistOrders(indices) ==
    IF Len(indices) <= 3 THEN IterationOrders(EdgeKeys(indices))
    ELSE {SortedEdges(EdgeKeys(indices)), Reversed(SortedEdges(EdgeKeys(indices)))}

DistMeshes ==
    {SeparateTriangles(n) : n \in {1, DistMaxTriangles \div 2, DistMaxTriangles \div 2 + 1, DistMaxTriangles}}
    \cup {FanMesh(DistFan)}

\* The particles of the records of chunk c (0-based) of batch b (0-based).
ChunkRecords(dc, b, c) == (dc.batch_offsets[b + 1] + 4 * c + 1)..(dc.batch_offsets[b + 1] + 4 * c + 4)

ChunkParticles(dc, b, c) == UNION {Range(dc.constraints[k]) : k \in ChunkRecords(dc, b, c)}

NumChunks(dc, b) == (dc.batch_offsets[b + 2] - dc.batch_offsets[b + 1]) \div 4

\* The workers rayon starts for batch b: one per chunk, nothing loaded yet.
SpawnWorkers(dc, b) == [c \in 1..NumChunks(dc, b) |-> [pc |-> "load", lane |-> 0, loaded |-> <<>>]]

DistInit ==
    /\ \E mesh \in DistMeshes, overflow_checks \in BOOLEAN :
          \E order \in DistOrders(mesh.indices) :
            LET dc == DistanceConstraint_new(mesh.indices, mesh.positions, DistanceCompliance,
                                             order, overflow_checks)
            IN \E w0 \in {0, 1}, shift \in DistShifts, omega \in DistOmegas, parallel \in BOOLEAN :
               LET moved == [mesh.positions EXCEPT ![1] = @ + shift]
               IN ds = [pc |-> IF dc.panic THEN "panicked" ELSE "ready",
                     dc |-> dc,
                     positions |-> moved,
                     start |-> moved,
                     inv_mass |-> [q \in DOMAIN mesh.positions |-> IF q = 0 THEN w0 ELSE 1],
                     omega |-> omega, dt |-> SubstepDt, parallel |-> parallel,
                     b |-> 0, workers |-> <<>>]
    /\ OthersIdle({"ds"})

\* solve() of a build without the parallel feature.
DistSolveSerial ==
    /\ ds.pc = "ready" /\ ~ds.parallel
    /\ ds' = [ds EXCEPT !.positions = DistanceConstraint_solve(ds.dc, ds.positions, ds.inv_mass,
                                                                ds.omega, ds.dt),
                        !.pc = "done"]
    /\ OthersUnchanged({"ds"})

\* solve() of a parallel build reaches the first batch.
DistSolveParallel ==
    /\ ds.pc = "ready" /\ ds.parallel
    /\ ds' = IF NumBatches(ds.dc.batch_offsets) = 0 THEN [ds EXCEPT !.pc = "done"]
             ELSE [ds EXCEPT !.pc = "batch", !.b = 0, !.workers = SpawnWorkers(ds.dc, 0)]
    /\ OthersUnchanged({"ds"})

\* A worker reads the positions of the particles of its four records.
WorkerLoad ==
    /\ ds.pc = "batch"
    /\ \E c \in DOMAIN ds.workers :
          /\ ds.workers[c].pc = "load"
          /\ ds' = [ds EXCEPT !.workers[c] =
                       [pc |-> "write", lane |-> 0,
                        loaded |-> [q \in ChunkParticles(ds.dc, ds.b, c - 1) |-> ds.positions[q]]]]
    /\ OthersUnchanged({"ds"})

\* A worker writes back one lane: positions[i1] += corr1; positions[i2] -= corr2.
WorkerWrite ==
    /\ ds.pc = "batch"
    /\ \E c \in DOMAIN ds.workers :
          /\ ds.workers[c].pc = "write"
          /\ LET k == ds.dc.batch_offsets[ds.b + 1] + 4 * (c - 1) + ds.workers[c].lane + 1 IN
             ds' = [ds EXCEPT
                      !.positions = SolveLane(ds.dc, ds.positions, ds.workers[c].loaded,
                                              ds.inv_mass, k, ds.dt, ds.omega),
                      !.workers[c] = IF ds.workers[c].lane = 3
                                     THEN [pc |-> "done", lane |-> 3, loaded |-> <<>>]
                                     ELSE [@ EXCEPT !.lane = @ + 1]]
    /\ OthersUnchanged({"ds"})

\* A batch loop that does not wait for the workers of the batch: the
\* remainder and the next batch start while chunks are still in flight.
DistJoin_early ==
    /\ ds.pc = "batch"
    /\ LET start == ds.dc.batch_offsets[ds.b + 1]
           end == ds.dc.batch_offsets[ds.b + 2]
           after == SolveRemainder(ds.dc, ds.positions, ds.inv_mass,
                                   start + NumChunks(ds.dc, ds.b) * 4, end, ds.dt, ds.omega)
       IN ds' = IF ds.b + 1 >= NumBatches(ds.dc.batch_offsets)
                THEN [ds EXCEPT !.positions = after, !.pc = "done", !.workers = <<>>]
                ELSE [ds EXCEPT !.positions = after, !.b = @ + 1,
                                !.workers = SpawnWorkers(ds.dc, ds.b + 1)]
    /\ OthersUnchanged({"ds"})

\* for_each has returned: the remainder of the batch is solved on the
\* calling thread and the next batch starts.
DistJoin ==
    /\ ds.pc = "batch"
    /\ \A c \in DOMAIN ds.workers : ds.workers[c].pc = "done"
    /\ LET start == ds.dc.batch_offsets[ds.b + 1]
           end == ds.dc.batch_offsets[ds.b + 2]
           after == SolveRemainder(ds.dc, ds.positions, ds.inv_mass,
                                   start + NumChunks(ds.dc, ds.b) * 4, end, ds.dt, ds.omega)
       IN ds' = IF ds.b + 1 >= NumBatches(ds.dc.batch_offsets)
                THEN [ds EXCEPT !.positions = after, !.pc = "done", !.workers = <<>>]
                ELSE [ds EXCEPT !.positions = after, !.b = @ + 1,
                                !.workers = SpawnWorkers(ds.dc, ds.b + 1)]
    /\ OthersUnchanged({"ds"})

DistNext == DistSolveSerial \/ DistSolveParallel \/ WorkerLoad \/ WorkerWrite \/ DistJoin

SpecDist == DistInit /\ [][DistNext]_vars

\* C4: while the chunks of a batch are being solved by concurrent workers,
\* no two workers touch the position of the same particle, and when the
\* parallel solve is done the positions equal those of solving the chunks
\* one after another.
C4_WorkersIndependent ==
    /\ ds.pc = "batch" =>
          \A c1, c2 \in DOMAIN ds.workers :
              c1 # c2 => ChunkParticles(ds.dc, ds.b, c1 - 1) \cap ChunkParticles(ds.dc, ds.b, c2 - 1) = {}
    /\ ds.pc = "done" /\ ds.parallel =>
          ds.positions = DistanceConstraint_solve(ds.dc, ds.start, ds.inv_mass, ds.omega, ds.dt)

\* C5: whatever the positions, the 4-wide kernel moves the particles of a
\* distance constraint exactly as the scalar kernel does.
C5_LaneEqualsScalar ==
    ds.pc \in {"ready", "done"} =>
        \A k \in 1..Len(ds.dc.constraints) :
            SolveLane(ds.dc, ds.positions, ds.positions, ds.inv_mass, k, ds.dt, ds.omega)
                = solve_single(ds.dc, ds.positions, ds.inv_mass, k, ds.dt, ds.omega)

\* Record k of the distance constraint is degenerate for the current
\* positions: its particles are closer than the 1e-6 floor or both pinned.
DistDegenerate(k) ==
    \/ Abs(ds.positions[ds.dc.constraints[k][1]] - ds.positions[ds.dc.constraints[k][2]])
          < MinEdgeLen
    \/ ds.inv_mass[ds.dc.constraints[k][1]] + ds.inv_mass[ds.dc.constraints[k][2]] = 0

\* C12: solving a record whose particles are closer together than the
\* epsilon floor, or whose combined inverse mass is zero, changes no
\* position, in the 4-wide kernel as in the scalar kernel.
C12_DegenerateIsNoOp ==
    ds.pc \in {"ready", "done"} =>
        \A k \in 1..Len(ds.dc.constraints) :
            DistDegenerate(k) =>
                /\ solve_single(ds.dc, ds.positions, ds.inv_mass, k, ds.dt, ds.omega)
                      = ds.positions
                /\ SolveLane(ds.dc, ds.positions, ds.positions, ds.inv_mass, k, ds.dt, ds.omega)
                      = ds.positions

\* The scalar kernel alone leaves a degenerate record alone.
DistScalarSkipsDegenerate ==
    ds.pc \in {"ready", "done"} =>
        \A k \in 1..Len(ds.dc.constraints) :
            DistDegenerate(k) =>
                solve_single(ds.dc, ds.positions, ds.inv_mass, k, ds.dt, ds.omega) = ds.positions

----------------------------------------------------------------------------
(* collision/preprocessing.rs, collision/spatial/static_grid.rs,           *)
(* collision/geometry.rs, collision/collider.rs : the static collider.     *)
(* A collider triangle is perpendicular to the Y axis and large enough to  *)
(* cover it: the record [y, up] gives its height and the direction (+1 or  *)
(* -1) of edge1 x edge2.  Triangles do not share vertices and the           *)
(* collider is built with smoothing_iterations = 0.                         *)

\* 1e-6 m: inflation amounts at or below it are ignored.
InflationFloor == 10

\* process_mesh: the vertex normals are the normalized face normals and
\* every vertex moves along its normal by inflation_amount.
process_mesh(raw, inflation_amount) ==
    [k \in DOMAIN raw |->
        LET normal == raw[k].up IN
        [y |-> IF Abs(inflation_amount) > InflationFloor
               THEN raw[k].y + normal * inflation_amount
               ELSE raw[k].y,
         up |-> raw[k].up,
         normal |-> normal]]

\* Cell size of the collider's grid, 0.1 m.
StaticCellSize == 1000000

\* Most cells along one axis.
GridCap == 1000

CeilDiv(a, b) == (a + b - 1) \div b

\* `as usize` of an f32: truncation, negative values saturate at 0.
AsUsize(x) == IF x < 0 THEN 0 ELSE x

\* StaticSpatialHash::new along Y: two cells of padding on either side.
StaticSpatialHash_new(bounds_min, bounds_max, cell_size) ==
    LET min == bounds_min - cell_size * 2
        max == bounds_max + cell_size * 2
        height == CeilDiv(max - min, cell_size)
        safe_height == MinOf({MaxOf({height, 1}), GridCap})
    IN [cell_size |-> cell_size, min |-> min, max |-> max, height |-> safe_height,
        cells |-> [c \in 1..safe_height |-> <<>>]]

StaticSpatialHash_contains(grid, p) == p >= grid.min /\ p <= grid.max

\* insert_aabb: the id is pushed to every cell min_y..=max_y (cell c is
\* cells[c + 1]).
StaticSpatialHash_insert_aabb(grid, id, lo, hi) ==
    LET min_y == AsUsize(Div(MaxOf({lo - grid.min, 0}), grid.cell_size))
        max_y == MinOf({AsUsize(Div(hi - grid.min, grid.cell_size)), grid.height - 1})
    IN [grid EXCEPT !.cells =
           [c \in DOMAIN @ |-> IF (c - 1) \in min_y..max_y THEN Append(@[c], id) ELSE @[c]]]

\* query: the ids of the cells overlapping [p - radius, p + radius] in
\* cell order, each id once.
StaticSpatialHash_query(grid, p, radius) ==
    LET min_y == AsUsize(Div(MaxOf({p - radius - grid.min, 0}), grid.cell_size))
        max_y == MinOf({AsUsize(Div(p + radius - grid.min, grid.cell_size)), grid.height - 1})
        RECURSIVE Scan(_, _)
        Scan(buffer, c) ==
            IF c > max_y THEN buffer
            ELSE Scan(buffer \o SelectSeq(grid.cells[c + 1],
                                          LAMBDA id : id \notin Range(buffer)), c + 1)
    IN IF min_y >= grid.height THEN <<>> ELSE Scan(<<>>, min_y)

\* rebuild_bvh: the triangles k, k+1, ... go one after the other through
\* insert_aabb, so a cell ends up with its old ids followed by the ids,
\* in ascending order, of the triangles whose bounding box covers it.
rebuild_bvh(grid, triangles, k) ==
    LET ids == [j \in 1..Len(triangles) |-> j - 1]
        Covers(id, c) ==
            /\ id >= k - 1
            /\ c >= AsUsize(Div(MaxOf({triangles[id + 1].y - grid.min, 0}), grid.cell_size))
            /\ c <= MinOf({AsUsize(Div(triangles[id + 1].y - grid.min, grid.cell_size)),
                           grid.height - 1})
    IN [grid EXCEPT !.cells =
           [c \in DOMAIN @ |-> @[c] \o SelectSeq(ids, LAMBDA id : Covers(id, c - 1))]]

\* MeshCollider::new(vertices, normals, indices, 0, inflation): the mesh
\* is preprocessed and the grid is built over its bounds.
MeshCollider_new(raw, inflation) ==
    LET triangles == process_mesh(raw, inflation)
        ys == {triangles[k].y : k \in DOMAIN triangles}
        grid == StaticSpatialHash_new(MinOf(ys), MaxOf(ys), StaticCellSize)
    IN [triangles |-> triangles, spatial_hash |-> rebuild_bvh(grid, triangles, 1)]

\* 1 / epsilon of intersect_segment, epsilon = 1e-7.
EpsilonInv == 10000000

NoHit == [hit |-> FALSE]

\* Triangle::intersect_segment for the segment p1 -> p2 on the axis.  The
\* determinant a is ray * 2 * area; with triangles of at least 0.5 m^2 it
\* is inside (-epsilon, epsilon) only for ray = 0.  u and v are inside the
\* triangle.  t = d / ray must satisfy epsilon < t < 1.
intersect_segment(tri, p1, p2) ==
    LET ray_vector == p2 - p1
        d == tri.y - p1
    IN IF ray_vector = 0 THEN NoHit
       ELSE IF /\ Sign(d) = Sign(ray_vector)
               /\ Abs(d) > Abs(ray_vector) \div EpsilonInv
               /\ Abs(d) < Abs(ray_vector)
            THEN [hit |-> TRUE,
                  point |-> tri.y,
                  normal |-> IF tri.up * ray_vector < 0 THEN tri.up ELSE -tri.up,
                  d |-> Abs(d),
                  ray |-> Abs(ray_vector)]
            ELSE NoHit
----------------------------------------------------------------------------
(* collision/resolver : broad phase, narrow phase, contact response.       *)
(* A PhysicsState is [count, positions, prev_positions, inv_mass], the     *)
(* three arrays being functions on 0..count-1.                             *)

\* CollisionResolver::new
ContactThickness == 50000

CollisionStiffness == 900

CandidateCapacity == 10000

\* 0.02 m, the fixed part of the broad-phase search radius.
BroadRadius == 200000

\* 0.05 m, the reach of the discrete test.
DiscreteRadius == 500000

\* 0.9 of the contact thickness is the largest approach per sub-step.
AirbagFraction == 900

CollisionResolver_new(particle_count) ==
    [thickness |-> ContactThickness,
     collision_stiffness |-> CollisionStiffness,
     contacts |-> <<>>,
     candidate_indices |-> <<>>,
     capacity |-> CandidateCapacity,
     candidate_offsets |-> [i \in 0..(particle_count - 1) |-> 0],
     candidate_counts |-> [i \in 0..(particle_count - 1) |-> 0]]

\* The triangles the broad phase queries for particle i.
BroadQuery(state, collider, i) ==
    StaticSpatialHash_query(collider.spatial_hash, state.positions[i],
                            BroadRadius + Abs(state.positions[i] - state.prev_positions[i]))

\* True when particle i is pinned or neither end of its motion is inside
\* the bounds of the grid.
BroadSkips(state, collider, i) ==
    \/ state.inv_mass[i] = 0
    \/ /\ ~StaticSpatialHash_contains(collider.spatial_hash, state.positions[i])
       /\ ~StaticSpatialHash_contains(collider.spatial_hash, state.prev_positions[i])

\* perform_broad_phase without the parallel feature: the buffer is
\* cleared and the particles append to it in index order, a particle whose
\* candidates do not fit below the capacity getting none.
RECURSIVE BroadSerial(_, _, _, _)
BroadSerial(resolver, state, collider, i) ==
    IF i >= state.count THEN resolver
    ELSE IF BroadSkips(state, collider, i)
    THEN Bind([resolver EXCEPT !.candidate_counts[i] = 0],
              LAMBDA next : BroadSerial(next, state, collider, i + 1))
    ELSE Bind(BroadQuery(state, collider, i), LAMBDA query_buffer :
         Bind(Len(resolver.candidate_indices), LAMBDA start_idx :
         Bind(IF start_idx + Len(query_buffer) < resolver.capacity
              THEN [resolver EXCEPT
                       !.candidate_indices = @ \o query_buffer,
                       !.candidate_offsets[i] = start_idx,
                       !.candidate_counts[i] = Len(query_buffer)]
              ELSE [resolver EXCEPT !.candidate_counts[i] = 0],
              LAMBDA next : BroadSerial(next, state, collider, i + 1))))

\* local_buffer of particles i..count-1 in the parallel path, one entry per
\* particle, empty for a particle that returns before its query.
RECURSIVE BroadLocalBuffers(_, _, _)
BroadLocalBuffers(state, collider, i) ==
    IF i >= state.count THEN <<>>
    ELSE <<IF BroadSkips(state, collider, i) THEN <<>> ELSE BroadQuery(state, collider, i)>>
         \o BroadLocalBuffers(state, collider, i + 1)

\* Offsets without the running total: every particle gets the first one.
BroadOffsets_flat(buffers, k, current_offset) ==
    [j \in 1..(Len(buffers) - k + 1) |-> current_offset]

\* The prefix sum: the offsets of particles k-1.. given the running total.
RECURSIVE BroadOffsets(_, _, _)
BroadOffsets(buffers, k, current_offset) ==
    IF k > Len(buffers) THEN <<>>
    ELSE <<current_offset>> \o BroadOffsets(buffers, k + 1, current_offset + Len(buffers[k]))

RECURSIVE BroadScatter(_, _)
BroadScatter(buffers, k) ==
    IF k > Len(buffers) THEN <<>> ELSE buffers[k] \o BroadScatter(buffers, k + 1)

\* perform_broad_phase with the parallel feature: counts, then a prefix
\* sum for the offsets, then a buffer resized to the total and filled by a
\* second query of every particle with a non-zero count, which finds what
\* the first one found.
BroadParallel(resolver, state, collider) ==
    Bind(BroadLocalBuffers(state, collider, 0), LAMBDA buffers :
    Bind(BroadOffsets(buffers, 1, 0), LAMBDA offsets :
         [resolver EXCEPT
             !.candidate_counts = [i \in 0..(state.count - 1) |-> Len(buffers[i + 1])],
             !.candidate_offsets = [i \in 0..(state.count - 1) |-> offsets[i + 1]],
             !.candidate_indices = BroadScatter(buffers, 1)]))

perform_broad_phase(resolver, state, collider, parallel) ==
    IF parallel THEN BroadParallel(resolver, state, collider)
    ELSE BroadSerial([resolver EXCEPT !.candidate_indices = <<>>], state, collider, 0)

\* min_metric of the candidate scan: f32::MAX, an intersection parameter
\* t = d / ray, or a squared distance dist * dist.
MaxMetric == [kind |-> "max", d |-> 0, ray |-> 1, dist |-> 0]

\* t < min_metric.  All candidates of a particle are tested against the
\* same segment, so two parameters compare as their numerators; against a
\* squared distance (in m^2) t compares as a plain number.
TBelowMetric(d, ray, m) ==
    CASE m.kind = "max" -> TRUE
      [] m.kind = "t" -> d < m.d
      [] m.kind = "dist_sq" ->
            d < (((m.dist \div 1000) * (m.dist \div 1000)) * (ray \div 10000)) \div 10000

\* dist_sq < min_metric, evaluated only while no continuous hit exists.
DistBelowMetric(dist, m) ==
    CASE m.kind = "max" -> TRUE
      [] m.kind = "dist_sq" -> dist < m.dist
      [] m.kind = "t" -> FALSE

NoContact == [some |-> FALSE]

\* One candidate of the scan: the continuous test, then, unless a
\* continuous hit has been accepted, the discrete test.
ScanCandidate(acc, tri, prev, pos) ==
    LET hit == intersect_segment(tri, prev, pos)
        accepted == IF hit.hit THEN TBelowMetric(hit.d, hit.ray, acc.min_metric) ELSE FALSE
        acc1 == IF accepted
                THEN [best |-> [some |-> TRUE,
                                surface_point |-> hit.point,
                                normal |-> IF hit.normal * (pos - prev) < 0
                                           THEN hit.normal ELSE -hit.normal],
                      min_metric |-> [kind |-> "t", d |-> hit.d, ray |-> hit.ray, dist |-> 0],
                      is_continuous |-> TRUE]
                ELSE acc
        dist == Abs(pos - tri.y)
    IN IF /\ ~acc1.is_continuous
          /\ dist < DiscreteRadius
          /\ DistBelowMetric(dist, acc1.min_metric)
       THEN [best |-> [some |-> TRUE, surface_point |-> tri.y, normal |-> tri.normal],
             min_metric |-> [kind |-> "dist_sq", d |-> 0, ray |-> 1, dist |-> dist],
             is_continuous |-> FALSE]
       ELSE acc1

RECURSIVE ScanCandidates(_, _, _, _, _)
ScanCandidates(acc, collider, candidates, prev, pos) ==
    IF candidates = <<>> THEN acc
    ELSE ScanCandidates(ScanCandidate(acc, collider.triangles[Head(candidates) + 1], prev, pos),
                        collider, Tail(candidates), prev, pos)

\* The best contact of particle i among its cached candidates.
BestContact(resolver, state, collider, i) ==
    LET offset == resolver.candidate_offsets[i]
        count == resolver.candidate_counts[i]
        candidates == [j \in 1..count |-> resolver.candidate_indices[offset + j]]
    IN ScanCandidates([best |-> NoContact, min_metric |-> MaxMetric, is_continuous |-> FALSE],
                      collider, candidates, state.prev_positions[i], state.positions[i]).best

\* A clamp that takes away the whole velocity along the normal.
Airbag_stop(prev, pos, normal, contact_thickness) ==
    LET max_v_per_step == Div(contact_thickness * AirbagFraction, Thousand)
    IN IF (pos - prev) * normal < -max_v_per_step THEN pos ELSE prev

\* The airbag: with max_v = contact_thickness * 0.9 / dt and velocity =
\* (pos - prev) / dt, v_normal < -max_v is (pos - prev) . normal <
\* -contact_thickness * 0.9 for every dt > 0, and the rewritten previous
\* position is pos + normal * contact_thickness * 0.9.
Airbag(prev, pos, normal, contact_thickness) ==
    LET max_v_per_step == Div(contact_thickness * AirbagFraction, Thousand)
    IN IF (pos - prev) * normal < -max_v_per_step
       THEN pos + normal * max_v_per_step
       ELSE prev

\* perform_narrow_phase: the contact list is rebuilt, one contact at most
\* per particle with candidates, in particle order (the parallel variant
\* collects the same results in the same order and applies them).
RECURSIVE NarrowLoop(_, _, _, _, _)
NarrowLoop(resolver, state, collider, contact_thickness, i) ==
    IF i >= state.count THEN [resolver |-> resolver, state |-> state]
    ELSE IF resolver.candidate_counts[i] = 0
    THEN NarrowLoop(resolver, state, collider, contact_thickness, i + 1)
    ELSE LET best == BestContact(resolver, state, collider, i) IN
         IF ~best.some
         THEN NarrowLoop(resolver, state, collider, contact_thickness, i + 1)
         ELSE NarrowLoop(
                 [resolver EXCEPT !.contacts = Append(@,
                     [particle_index |-> i, normal |-> best.normal,
                      surface_point |-> best.surface_point])],
                 [state EXCEPT !.prev_positions[i] =
                     Airbag(@, state.positions[i], best.normal, contact_thickness)],
                 collider, contact_thickness, i + 1)

perform_narrow_phase(resolver, state, collider, contact_thickness) ==
    NarrowLoop([resolver EXCEPT !.contacts = <<>>], state, collider, contact_thickness, 0)

\* (pos - surface_point) . normal
Projection(state, contact) ==
    (state.positions[contact.particle_index] - contact.surface_point) * contact.normal

\* resolve_contacts for one contact whose response moves no position: the
\* back-face recovery of the previous position alone.
resolve_contact_recovery_only(self, state, contact) ==
    LET i == contact.particle_index
        projection == Projection(state, contact)
    IN IF projection < 0
          /\ (state.positions[i] - state.prev_positions[i]) * contact.normal < 0
       THEN [state EXCEPT !.prev_positions[i] = state.positions[i]]
       ELSE state

\* A response that applies every correction against the normal.
resolve_contact_pull(self, state, contact) ==
    LET i == contact.particle_index
        normal == contact.normal
        projection == Projection(state, contact)
    IN IF projection >= self.thickness THEN state
       ELSE [state EXCEPT !.positions[i] = @ - normal * (self.thickness - projection)]

\* The body of the loop of resolve_contacts.  On the axis the tangential
\* velocity is zero, so the friction factor stays 0 and new_vt = 0.
resolve_contact(self, state, contact) ==
    LET i == contact.particle_index
        normal == contact.normal
        projection == Projection(state, contact)
    IN IF projection >= self.thickness THEN state
       ELSE LET recovered ==
                    IF projection < 0
                       /\ (state.positions[i] - state.prev_positions[i]) * normal < 0
                    THEN [state EXCEPT !.prev_positions[i] = state.positions[i]]
                    ELSE state
            IN IF projection < 0 /\ projection < -(self.thickness * 2)
               THEN [recovered EXCEPT
                        !.positions[i] = @ + normal * (self.thickness - projection)]
               ELSE LET penetration == self.thickness - projection
                        stiffness == IF projection < 0 THEN Thousand
                                     ELSE self.collision_stiffness
                        pos == recovered.positions[i]
                                  + normal * Div(penetration * stiffness, Thousand)
                        vn_mag == (pos - recovered.prev_positions[i]) * normal
                        new_vn == IF vn_mag < 0 THEN 0 ELSE normal * vn_mag
                    IN [recovered EXCEPT !.positions[i] = pos,
                                         !.prev_positions[i] = pos - new_vn]

RECURSIVE ResolveLoop(_, _, _)
ResolveLoop(self, state, contacts) ==
    IF contacts = <<>> THEN state
    ELSE ResolveLoop(self, resolve_contact(self, state, Head(contacts)), Tail(contacts))

resolve_contacts(self, state) == ResolveLoop(self, state, self.contacts)
----------------------------------------------------------------------------
(* Specification SpecNarrow: test_narrow_phase_integration.  One free      *)
(* particle behind an upward-facing triangle at height 0, its previous     *)
(* position in front of the triangle, a second particle at rest out of     *)
(* reach of the triangle and a third 2 cm in front of it that comes from   *)
(* 2 mm farther away; one broad phase, then rounds of narrow_phase         *)
(* followed by resolve_contacts.                                           *)

\* Rounds a run goes through.
MaxRounds == 6

\* Rounds of the test.
TestRounds == 4

\* The particle starts 5 mm behind the triangle.
StartDepth == 50000

\* Height of the particle that is out of reach (0.15 m).
NarrowAloof == 1500000

\* Height of the particle within the reach of the discrete test, and how
\* much higher its previous position is.
NarrowHover == 200000

NarrowDrift == 20000

\* Inflation amounts of the collider (the test uses 0.01 m).
NarrowInflations == {0, 50000, 100000}

\* Previous positions in front of the triangle (the test uses 0.01 m).
NarrowPrevs == {50000, 100000, 200000, 5000000}

NarrowInit ==
    /\ \E inflation \in NarrowInflations, prev \in NarrowPrevs, parallel \in BOOLEAN :
          nr = [pc |-> "built",
                state |-> [count |-> 3,
                           positions |-> (0 :> -StartDepth @@ 1 :> NarrowAloof
                                          @@ 2 :> NarrowHover),
                           prev_positions |-> (0 :> prev @@ 1 :> NarrowAloof
                                               @@ 2 :> NarrowHover + NarrowDrift),
                           inv_mass |-> [i \in {0, 1, 2} |-> 1]],
                collider |-> MeshCollider_new(<<[y |-> 0, up |-> 1]>>, inflation),
                resolver |-> CollisionResolver_new(3),
                inflation |-> inflation, start_prev |-> prev, parallel |-> parallel,
                round |-> 0]
    /\ OthersIdle({"nr"})

\* resolver.broad_phase(&state, &mut collider)
NarrowBroad ==
    /\ nr.pc = "built"
    /\ nr' = [nr EXCEPT
                !.resolver = perform_broad_phase(nr.resolver, nr.state, nr.collider, nr.parallel),
                !.pc = "detect"]
    /\ OthersUnchanged({"nr"})

\* resolver.narrow_phase(&mut state, &collider, &config, dt)
NarrowDetect ==
    /\ nr.pc = "detect"
    /\ nr.round < MaxRounds
    /\ LET out == perform_narrow_phase(nr.resolver, nr.state, nr.collider, ContactThickness)
       IN nr' = [nr EXCEPT !.resolver = out.resolver, !.state = out.state, !.pc = "resolve"]
    /\ OthersUnchanged({"nr"})

\* resolver.resolve_contacts(&mut state, &config, dt), which ends a round.
NarrowResolve ==
    /\ nr.pc = "resolve"
    /\ nr' = [nr EXCEPT !.state = resolve_contacts(nr.resolver, nr.state),
                        !.round = @ + 1, !.pc = "detect"]
    /\ OthersUnchanged({"nr"})

NarrowNext == NarrowBroad \/ NarrowDetect \/ NarrowResolve

SpecNarrow == NarrowInit /\ [][NarrowNext]_vars

----------------------------------------------------------------------------
(* systems/forces/aerodynamics.rs, systems/dynamics/integrator.rs,         *)
(* systems/constraints/mouse.rs : the stages of a sub-step that precede    *)
(* the collision and constraint passes.                                    *)

\* Aerodynamics::apply: every garment triangle on the axis has
\* area_x2 = 0 < 1e-6 and is skipped, so the force buffer stays zero.
Aerodynamics_apply(state) == [i \in 0..(state.count - 1) |-> 0]

\* config.gravity.y in units of 0.01 m/s^2.
GravityY == -981

\* config.damping in thousandths.
Damping == 990

\* v * f for a factor f in thousandths, the product taken in two parts.
MulFrac(v, f) ==
    LET whole == Div(v, Thousand)
    IN whole * f + Div((v - whole * Thousand) * f, Thousand)

\* acceleration * dt_sq in length units, for dt in microseconds.
AccelerationTerm(acceleration, dt) == Div(acceleration * Div(dt * dt, Thousand), 10000)

\* integrate_single with its first line, the test of inv_mass, left out.
integrate_single_unchecked(state, external_forces, dt, i) ==
    LET pos == state.positions[i]
        prev == state.prev_positions[i]
        acceleration == GravityY + external_forces[i] * state.inv_mass[i]
        next_pos == pos + MulFrac(pos - prev, Damping)
                        + AccelerationTerm(acceleration, dt)
    IN [state EXCEPT !.prev_positions[i] = pos, !.positions[i] = next_pos]

\* Integrator::integrate_single
integrate_single(state, external_forces, dt, i) ==
    IF state.inv_mass[i] = 0 THEN state
    ELSE LET pos == state.positions[i]
             prev == state.prev_positions[i]
             acceleration == GravityY + external_forces[i] * state.inv_mass[i]
             next_pos == pos + MulFrac(pos - prev, Damping)
                             + AccelerationTerm(acceleration, dt)
         IN [state EXCEPT !.prev_positions[i] = pos, !.positions[i] = next_pos]

\* Integrator::integrate: the unrolled chunks and the remainder visit the
\* particles in index order.
RECURSIVE IntegrateFrom(_, _, _, _)
IntegrateFrom(state, external_forces, dt, i) ==
    IF i >= state.count THEN state
    ELSE Bind(integrate_single(state, external_forces, dt, i),
              LAMBDA next : IntegrateFrom(next, external_forces, dt, i + 1))

integrate(state, external_forces, dt) == IntegrateFrom(state, external_forces, dt, 0)

\* Option<usize>::None of grabbed_index.
NoIndex == -1

MouseConstraint_new == [grabbed_index |-> NoIndex, target_position |-> 0, compliance |-> 0]

MouseConstraint_grab(mouse, index, position) ==
    [mouse EXCEPT !.grabbed_index = index, !.target_position = position]

MouseConstraint_update_target(mouse, position) ==
    [mouse EXCEPT !.target_position = position]

\* A release that leaves the grab in place.
MouseConstraint_release_ignored(mouse) == mouse

MouseConstraint_release(mouse) == [mouse EXCEPT !.grabbed_index = NoIndex]

\* MouseConstraint::solve: positions[idx] += difference * w / (w + alpha).
MouseConstraint_solve(mouse, state, dt) ==
    LET idx == mouse.grabbed_index IN
    IF idx = NoIndex THEN state
    ELSE IF idx >= state.count THEN state
    ELSE IF state.inv_mass[idx] = 0 THEN state
    ELSE LET w == state.inv_mass[idx]
             alpha == AlphaOf(mouse.compliance, dt)
             difference == mouse.target_position - state.positions[idx]
         IN [state EXCEPT !.positions[idx] =
                @ + Div(difference * (w * Thousand), w * Thousand + alpha)]

----------------------------------------------------------------------------
(* systems/constraints/bending, systems/constraints/tether,                *)
(* systems/constraints/area.rs, systems/dynamics/solver.rs                 *)

\* adj[i] of BendingConstraint::new: the particles that share a triangle
\* with i.
BendAdj(indices, i) ==
    UNION {{indices[3 * t - 2], indices[3 * t - 1], indices[3 * t]} \ {i} :
             t \in {u \in 1..(Len(indices) \div 3) :
                       i \in {indices[3 * u - 2], indices[3 * u - 1], indices[3 * u]}}}

\* The pairs pushed while the outer loop is at i: the particles two edges
\* away that are no neighbours of i and form no pair processed at a
\* smaller index.
BendPairsAt(indices, count, i) ==
    {<<i, far>> : far \in {f \in (i + 1)..(count - 1) :
                             /\ f \notin BendAdj(indices, i)
                             /\ BendAdj(indices, f) \cap BendAdj(indices, i) # {}}}

\* The orders in which the pairs can be pushed: i ascends, the pairs of
\* one i come in the order the two HashSet iterations produce.
BendingOrders(indices, count) ==
    LET pairs == UNION {BendPairsAt(indices, count, i) : i \in 0..(count - 1)}
    IN {o \in IterationOrders(pairs) :
           \A a, b \in DOMAIN o : a < b => o[a][1] <= o[b][1]}

\* compliance_factor = 1.0 * scale_factor^2 with scale_factor = 1, in
\* units of 1e-7; with all uvs equal no pair is axis aligned.
BendingCompliance == 10000000

\* BendingConstraint::new
BendingConstraint_new(positions, compliance_factor, order, overflow_checks) ==
    LET colored == color_constraints(order, overflow_checks)
        n == Len(colored.sorted_indices)
    IN [panic |-> colored.panic,
        constraints |-> [k \in 1..n |-> order[colored.sorted_indices[k]]],
        rest_lengths |-> [k \in 1..n |->
            Abs(positions[order[colored.sorted_indices[k]][1]]
                - positions[order[colored.sorted_indices[k]][2]])],
        compliances |-> [k \in 1..n |-> compliance_factor],
        batch_offsets |-> colored.batch_offsets]

\* BendingConstraint::solve: the batch loop and the two kernels are those
\* of the distance constraint, run over the bending records.
BendingConstraint_solve(bc, positions, inv_mass, omega, dt) ==
    SolveBatches(bc, positions, inv_mass, 0, dt, omega)

\* 0.10 m: a column gets a vertical tether only when taller than this.
TetherMinVertical == 1000000

\* vertical::generate.  All particles are in the column of the axis; the
\* stable sort by descending y puts first the lowest index among the
\* highest particles, and the scan from the other end meets first the
\* highest index among the lowest particles.  Every normal is +Y.
vertical_generate(state) ==
    IF state.count < 2 THEN <<>>
    ELSE LET ids == 0..(state.count - 1)
             max_y == MaxOf({state.positions[i] : i \in ids})
             min_y == MinOf({state.positions[i] : i \in ids})
             top_idx == MinOf({i \in ids : state.positions[i] = max_y})
             bottom_idx == MaxOf({i \in ids : state.positions[i] = min_y})
         IN IF top_idx # bottom_idx /\ max_y - min_y > TetherMinVertical
            THEN <<[pair |-> <<top_idx, bottom_idx>>, rest |-> max_y - min_y]>>
            ELSE <<>>

\* horizontal::generate.  The particles of a row lie within 0.15 m below
\* the highest one and on the axis, so no two of them are more than
\* 0.15 m apart and no tether is pushed.
horizontal_generate(state) == <<>>

\* TetherConstraint::new after the two generators: the raw tethers are
\* colored and stored batch by batch.
TetherColored(raw, overflow_checks) ==
    LET colored == color_constraints([k \in 1..Len(raw) |-> raw[k].pair], overflow_checks)
        n == Len(colored.sorted_indices)
    IN [panic |-> colored.panic,
        constraints |-> [k \in 1..n |-> raw[colored.sorted_indices[k]].pair],
        rest_lengths |-> [k \in 1..n |-> raw[colored.sorted_indices[k]].rest],
        batch_offsets |-> colored.batch_offsets]

\* TetherConstraint::new
TetherConstraint_new(state, overflow_checks) ==
    TetherColored(vertical_generate(state) \o horizontal_generate(state), overflow_checks)

\* TetherConstraint::solve_single on record k (1-based).
tether_solve_single(tc, positions, inv_mass, k, omega) ==
    LET i1 == tc.constraints[k][1]
        i2 == tc.constraints[k][2]
        w1 == inv_mass[i1]
        w2 == inv_mass[i2]
        len == Abs(positions[i1] - positions[i2])
        correction == Sign(positions[i1] - positions[i2])
                      * Div((0 - (len - tc.rest_lengths[k])) * omega, (w1 + w2) * Thousand)
    IN IF w1 + w2 = 0 THEN positions
       ELSE IF len < MinEdgeLen THEN positions
       ELSE IF len <= tc.rest_lengths[k] THEN positions
       ELSE LET moved1 == IF w1 > 0 THEN [positions EXCEPT ![i1] = @ + correction * w1]
                          ELSE positions
            IN IF w2 > 0 THEN [moved1 EXCEPT ![i2] = @ - correction * w2] ELSE moved1

\* A lane whose C = len - rest is not clamped at 0.
TetherLane_unclamped(tc, positions, loaded, inv_mass, k, omega) ==
    LET i1 == tc.constraints[k][1]
        i2 == tc.constraints[k][2]
        w1 == inv_mass[i1]
        w2 == inv_mass[i2]
        len == Abs(loaded[i1] - loaded[i2])
        c == len - tc.rest_lengths[k]
        correction == IF w1 + w2 = 0 THEN 0
                      ELSE Sign(loaded[i1] - loaded[i2])
                           * Div((0 - c) * omega, (w1 + w2) * Thousand)
        moved1 == IF w1 > 0 THEN [positions EXCEPT ![i1] = @ + correction * w1] ELSE positions
    IN IF w2 > 0 THEN [moved1 EXCEPT ![i2] = @ - correction * w2] ELSE moved1

\* One lane of TetherConstraint::solve_simd_4: record k, with
\* C = max(len - rest, 0) computed from the positions the kernel loaded and
\* the corrections added to the current ones under the masks w1 > 0, w2 > 0.
\* max(w_sum, 1e-8) differs from w_sum only where both masks are off, and
\* max(len, 1e-8) only where delta is the zero vector.
TetherLane(tc, positions, loaded, inv_mass, k, omega) ==
    LET i1 == tc.constraints[k][1]
        i2 == tc.constraints[k][2]
        w1 == inv_mass[i1]
        w2 == inv_mass[i2]
        len == Abs(loaded[i1] - loaded[i2])
        c == MaxOf({len - tc.rest_lengths[k], 0})
        correction == IF w1 + w2 = 0 THEN 0
                      ELSE Sign(loaded[i1] - loaded[i2])
                           * Div((0 - c) * omega, (w1 + w2) * Thousand)
        moved1 == IF w1 > 0 THEN [positions EXCEPT ![i1] = @ + correction * w1] ELSE positions
    IN IF w2 > 0 THEN [moved1 EXCEPT ![i2] = @ - correction * w2] ELSE moved1

\* TetherConstraint::solve_simd_4 on records base .. base+3 (1-based).
tether_solve_simd_4(tc, positions, inv_mass, base, omega) ==
    LET l0 == TetherLane(tc, positions, positions, inv_mass, base, omega)
        l1 == TetherLane(tc, l0, positions, inv_mass, base + 1, omega)
        l2 == TetherLane(tc, l1, positions, inv_mass, base + 2, omega)
    IN TetherLane(tc, l2, positions, inv_mass, base + 3, omega)

\* The records k .. end-1 (0-based) of one batch: 4-wide chunks while four
\* records remain, then the scalar remainder.
RECURSIVE TetherSpan(_, _, _, _, _, _)
TetherSpan(tc, positions, inv_mass, k, end, omega) ==
    IF k >= end THEN positions
    ELSE IF end - k >= 4
    THEN Bind(tether_solve_simd_4(tc, positions, inv_mass, k + 1, omega),
              LAMBDA next : TetherSpan(tc, next, inv_mass, k + 4, end, omega))
    ELSE Bind(tether_solve_single(tc, positions, inv_mass, k + 1, omega),
              LAMBDA next : TetherSpan(tc, next, inv_mass, k + 1, end, omega))

RECURSIVE TetherBatches(_, _, _, _, _)
TetherBatches(tc, positions, inv_mass, b, omega) ==
    IF b >= NumBatches(tc.batch_offsets) THEN positions
    ELSE Bind(TetherSpan(tc, positions, inv_mass, tc.batch_offsets[b + 1],
                         tc.batch_offsets[b + 2], omega),
              LAMBDA next : TetherBatches(tc, next, inv_mass, b + 1, omega))

\* TetherConstraint::solve
TetherConstraint_solve(tc, positions, inv_mass, omega) ==
    TetherBatches(tc, positions, inv_mass, 0, omega)

\* AreaConstraint::new: a triangle on the axis has area 0, which is not
\* above 1e-6, so no record is pushed and the coloring is that of the
\* empty list.
AreaConstraint_new(state, overflow_checks) ==
    [indices |-> <<>>, rest_areas |-> <<>>,
     batch_offsets |-> color_constraints_3(<<>>, overflow_checks).batch_offsets]

\* AreaConstraint::solve: one pass over the batches, none here.
AreaConstraint_solve(ac, positions) == positions

\* config.spectral_radius in thousandths.
SpectralRadius == 500

SolverIterations == 8

Substeps == 8

\* The Chebyshev factor of pass i, in thousandths.
OmegaOf(i, omega) ==
    LET rho_sq == Div(SpectralRadius * SpectralRadius, Thousand) IN
    IF i = 0 THEN Thousand
    ELSE IF i = 1 THEN Div(2 * Thousand * Thousand, 2 * Thousand - rho_sq)
    ELSE Div(4 * Thousand * Thousand, 4 * Thousand - Div(rho_sq * omega, Thousand))

\* Solver::new
Solver_new(state, indices, dist_order, bend_order, overflow_checks) ==
    [distance_constraint |-> DistanceConstraint_new(indices, state.positions, DistanceCompliance,
                                                    dist_order, overflow_checks),
     bending_constraint |-> BendingConstraint_new(state.positions, BendingCompliance,
                                                  bend_order, overflow_checks),
     tether_constraint |-> TetherConstraint_new(state, overflow_checks),
     area_constraint |-> AreaConstraint_new(state, overflow_checks)]

\* An entry of the trace an instance keeps of its current step call: the
\* stage that ran and what it worked with.
Event(stage, arg) == [stage |-> stage, arg |-> arg]

\* One pass of Solver::solve on the instance s: distance, bending, tether
\* and area with the pass's omega, then the contacts of the resolver.
SolverPass(s, dt, omega) ==
    Bind([s EXCEPT !.state.positions =
                       DistanceConstraint_solve(s.solver.distance_constraint, s.state.positions,
                                                s.state.inv_mass, omega, dt),
                   !.log = Append(@, Event("distance", omega))], LAMBDA s1 :
    Bind([s1 EXCEPT !.state.positions =
                        BendingConstraint_solve(s1.solver.bending_constraint, s1.state.positions,
                                                s1.state.inv_mass, omega, dt),
                    !.log = Append(@, Event("bending", omega))], LAMBDA s2 :
    Bind([s2 EXCEPT !.state.positions =
                        TetherConstraint_solve(s2.solver.tether_constraint, s2.state.positions,
                                               s2.state.inv_mass, omega),
                    !.log = Append(@, Event("tether", omega))], LAMBDA s3 :
    Bind([s3 EXCEPT !.state.positions =
                        AreaConstraint_solve(s3.solver.area_constraint, s3.state.positions),
                    !.log = Append(@, Event("area", omega))], LAMBDA s4 :
    Bind(resolve_contacts(s4.resolver, s4.state), LAMBDA resolved :
         [s4 EXCEPT !.state = resolved,
                    !.log = Append(@, [stage |-> "resolve_contacts",
                                       arg |-> s4.resolver.contacts,
                                       before |-> s4.state,
                                       after |-> resolved])])))))

RECURSIVE SolverPasses(_, _, _, _)
SolverPasses(s, dt, i, omega) ==
    IF i >= s.config.solver_iterations THEN s
    ELSE Bind(OmegaOf(i, omega), LAMBDA w :
         Bind(SolverPass(s, dt, w), LAMBDA next : SolverPasses(next, dt, i + 1, w)))

\* Solver::solve entered with the loop index and omega of a second pass.
Solver_solve_warm(s, dt) == SolverPasses(s, dt, 1, Thousand)

\* Solver::solve cut down to its first pass.
Solver_solve_first_pass(s, dt) == SolverPass(s, dt, OmegaOf(0, Thousand))

\* Solver::solve
Solver_solve(s, dt) == SolverPasses(s, dt, 0, Thousand)

----------------------------------------------------------------------------
(* engine/state.rs, engine/simulation.rs, lib.rs : a Simulation            *)

\* PhysicsState::new: prev_positions = positions, every inv_mass = 1.0.
PhysicsState_new(raw_positions) ==
    [count |-> Cardinality(DOMAIN raw_positions),
     positions |-> raw_positions,
     prev_positions |-> raw_positions,
     inv_mass |-> [i \in DOMAIN raw_positions |-> 1]]

\* The u32 substep_counter as two 16-bit halves.
HalfWord == 65536

wrapping_add_1(counter) ==
    IF counter.lo + 1 < HalfWord THEN [counter EXCEPT !.lo = @ + 1]
    ELSE [hi |-> (counter.hi + 1) % HalfWord, lo |-> 0]

\* substep_counter % freq
CounterMod(counter, freq) ==
    (((counter.hi % freq) * (HalfWord % freq)) + (counter.lo % freq)) % freq

\* utils/normals.rs compute_vertex_normals: every garment triangle on the
\* axis has a zero face normal, so every vertex gets the default, +Y.
compute_vertex_normals(state) == [i \in 0..(state.count - 1) |-> 1]

\* Simulation::new.  dist_order and bend_order are the orders in which the
\* hash containers of DistanceConstraint::new and BendingConstraint::new
\* are iterated.  No constraint of the meshes used reaches color 64, so
\* the shift of the coloring never overflows in any build.  `log` is the
\* trace of the current step call.
Simulation_new(input, dist_order, bend_order) ==
    LET state == PhysicsState_new(input.positions)
        solver == Solver_new(state, input.indices, dist_order, bend_order, FALSE)
    IN [state |-> state,
        normals |-> [i \in 0..(state.count - 1) |-> 1],
        config |-> [substeps |-> Substeps, solver_iterations |-> SolverIterations,
                    self_collision_enabled |-> TRUE],
        collider |-> MeshCollider_new(input.collider, input.inflation),
        resolver |-> CollisionResolver_new(state.count),
        solver |-> solver,
        forces |-> [i \in 0..(state.count - 1) |-> 0],
        mouse |-> MouseConstraint_new,
        self_collision |-> SelfCollision_new(input.indices, state.count,
                              SelfConfig(DefaultMaxPairs)),
        substep_counter |-> [hi |-> 0, lo |-> 0],
        log |-> <<>>]

\* The self-collision block of the loop of Simulation::step.
SelfCollisionStage(s, parallel) ==
    LET freq == s.self_collision.config.frequency IN
    IF s.config.self_collision_enabled
    THEN IF freq = 0 \/ CounterMod(s.substep_counter, freq) = 0
         THEN Bind(SelfCollision_solve(s.self_collision, s.state.positions, s.state.inv_mass,
                                       s.state.count, parallel), LAMBDA after :
                   [s EXCEPT !.state.positions = after.positions,
                             !.self_collision = after.self,
                             !.log = Append(@, Event("self_collision", s.substep_counter))])
         ELSE s
    ELSE s

\* One pass of the loop of Simulation::step.
Substep(s, sdt, parallel) ==
    Bind([s EXCEPT !.forces = Aerodynamics_apply(s.state),
                   !.log = Append(@, Event("aerodynamics", 0))], LAMBDA s1 :
    Bind([s1 EXCEPT !.state = integrate(s1.state, s1.forces, sdt),
                    !.log = Append(@, Event("integrate", s1.substep_counter))], LAMBDA s2 :
    Bind(MouseConstraint_solve(s2.mouse, s2.state, sdt), LAMBDA pulled :
    Bind([s2 EXCEPT !.state = pulled,
                    !.log = Append(@, Event("mouse", [before |-> s2.state.positions,
                                                      after |-> pulled.positions]))],
         LAMBDA s3 :
    Bind(perform_narrow_phase(s3.resolver, s3.state, s3.collider, ContactThickness),
         LAMBDA narrow :
    Bind([s3 EXCEPT !.state = narrow.state,
                    !.resolver = narrow.resolver,
                    !.log = Append(@, Event("narrow_phase", narrow.resolver.contacts))],
         LAMBDA s4 :
    Bind(Solver_solve(s4, sdt), LAMBDA s5 :
    Bind(SelfCollisionStage(s5, parallel), LAMBDA s6 :
         [s6 EXCEPT !.substep_counter = wrapping_add_1(@)]))))))))

RECURSIVE Substeps_run(_, _, _, _)
Substeps_run(s, sdt, parallel, n) ==
    IF n = 0 THEN s
    ELSE Bind(Substep(s, sdt, parallel),
              LAMBDA next : Substeps_run(next, sdt, parallel, n - 1))

\* A step that rebuilds the candidate cache after its sub-steps instead of
\* before them.
Simulation_step_late_broad(s, dt, parallel) ==
    Bind(Div(dt, s.config.substeps), LAMBDA sdt :
    Bind(Substeps_run([s EXCEPT !.log = <<>>], sdt, parallel, s.config.substeps), LAMBDA s1 :
    Bind([s1 EXCEPT !.resolver = perform_broad_phase(s1.resolver, s1.state, s1.collider, parallel),
                    !.log = Append(@, Event("broad_phase", 0))], LAMBDA s2 :
         [s2 EXCEPT !.normals = compute_vertex_normals(s2.state),
                    !.log = Append(@, Event("normals", 0))])))

\* Simulation::step
Simulation_step(s, dt, parallel) ==
    Bind(Div(dt, s.config.substeps), LAMBDA sdt :
    Bind([s EXCEPT !.resolver = perform_broad_phase(s.resolver, s.state, s.collider, parallel),
                   !.log = <<Event("broad_phase", 0)>>], LAMBDA s1 :
    Bind(Substeps_run(s1, sdt, parallel, s1.config.substeps), LAMBDA s2 :
         [s2 EXCEPT !.normals = compute_vertex_normals(s2.state),
                    !.log = Append(@, Event("normals", 0))])))

----------------------------------------------------------------------------
(* Specification SpecSim: two Simulation instances built from the same     *)
(* input, each with its own hash iteration orders, driven by one sequence  *)
(* of step, grab, update_target and release calls.                         *)

\* step calls of a run.
MaxSteps == 2

\* grab, update_target and release calls of a run.
MaxCalls == 1

\* dt of a frame in microseconds: sim.step(0.016).
FrameDt == 16000

\* A floor at height 0 facing up.
SimFloor == <<[y |-> 0, up |-> 1]>>

\* Particle 0 rests 3 mm above the floor, inside the contact thickness.
\* "tri": a triangle 0-1-2 of 12 cm and the loose particle 3 just outside
\* the self-collision thickness of particle 0.  "strip": two triangles
\* 0-1-2, 1-2-3 of 9 cm.
SimMeshes ==
    {[indices |-> <<0, 1, 2>>,
      positions |-> [i \in 0..3 |-> IF i = 3 THEN 80500 ELSE 30000 + i * 600000]],
     [indices |-> <<0, 1, 2, 1, 2, 3>>,
      positions |-> [i \in 0..3 |-> 30000 + i * 300000]]}

\* The particles the host pins after construction.
SimPinned == {{}, {0}, {1}}

\* Arguments of grab and update_target: particle 0, pinned or free, or an
\* index past the end, and targets 1 mm below and 7 mm above particle 0.
SimGrabIndices == {0, 4}

SimTargets == {20000, 100000}

SimInputs ==
    {[indices |-> m.indices, positions |-> m.positions,
      inv_mass |-> [i \in 0..3 |-> IF i \in pinned THEN 0 ELSE 1],
      collider |-> SimFloor, inflation |-> 0] : m \in SimMeshes, pinned \in SimPinned}

\* The instance as the host holds it after pinning.
SimBuild(input, dist_order, bend_order) ==
    LET s == Simulation_new(input, dist_order, bend_order)
    IN [s EXCEPT !.state.inv_mass = input.inv_mass]

SimInit ==
    /\ \E input \in SimInputs, parallel \in BOOLEAN :
          \E order_a \in {SortedEdges(EdgeKeys(input.indices))},
             order_b \in DistOrders(input.indices),
             bend_a \in BendingOrders(input.indices, 4),
             bend_b \in BendingOrders(input.indices, 4) :
                sim = [pc |-> "run", input |-> input, parallel |-> parallel,
                       a |-> SimBuild(input, order_a, bend_a),
                       b |-> SimBuild(input, order_b, bend_b),
                       steps |-> 0, calls |-> 0]
    /\ OthersIdle({"sim"})

\* PhysicsEngine::step on both instances.
SimStep ==
    /\ sim.pc = "run"
    /\ sim.steps < MaxSteps
    /\ sim' = [sim EXCEPT !.a = Simulation_step(sim.a, FrameDt, sim.parallel),
                          !.b = Simulation_step(sim.b, FrameDt, sim.parallel),
                          !.steps = @ + 1]
    /\ OthersUnchanged({"sim"})

\* PhysicsEngine::set_interaction
SimGrab ==
    /\ sim.pc = "run"
    /\ sim.calls < MaxCalls
    /\ \E index \in SimGrabIndices, position \in SimTargets :
          sim' = [sim EXCEPT !.a.mouse = MouseConstraint_grab(@, index, position),
                             !.b.mouse = MouseConstraint_grab(@, index, position),
                             !.calls = @ + 1]
    /\ OthersUnchanged({"sim"})

\* PhysicsEngine::update_interaction
SimUpdateTarget ==
    /\ sim.pc = "run"
    /\ sim.calls < MaxCalls
    /\ \E position \in SimTargets :
          sim' = [sim EXCEPT !.a.mouse = MouseConstraint_update_target(@, position),
                             !.b.mouse = MouseConstraint_update_target(@, position),
                             !.calls = @ + 1]
    /\ OthersUnchanged({"sim"})

\* PhysicsEngine::end_interaction
SimRelease ==
    /\ sim.pc = "run"
    /\ sim.calls < MaxCalls
    /\ sim' = [sim EXCEPT !.a.mouse = MouseConstraint_release(@),
                          !.b.mouse = MouseConstraint_release(@),
                          !.calls = @ + 1]
    /\ OthersUnchanged({"sim"})

SimNext == SimStep \/ SimGrab \/ SimUpdateTarget \/ SimRelease

SpecSim == SimInit /\ [][SimNext]_vars

\* Particle i of instance s is where it was constructed.
AtConstructed(s, i) ==
    /\ s.state.positions[i] = sim.input.positions[i]
    /\ s.state.prev_positions[i] = sim.input.positions[i]

\* C1: a particle whose inverse mass is 0 has after every step the position
\* it had before it, whatever grab, update_target and release calls come in
\* between, also when it is the grabbed particle, lies within the contact
\* thickness of the collider or within self-collision range of another
\* particle.
C1_PinnedUnmoved ==
    [][SimStep =>
          \A i \in 0..(sim.a.state.count - 1) :
             /\ sim.a.state.inv_mass[i] = 0 =>
                   sim'.a.state.positions[i] = sim.a.state.positions[i]
             /\ sim.b.state.inv_mass[i] = 0 =>
                   sim'.b.state.positions[i] = sim.b.state.positions[i]]_vars

\* A stepped instance whose pinned particle 0 is the grabbed one, lies
\* inside the contact thickness of the floor and is one of a detected
\* self-collision pair.
C1_Witness ==
    /\ sim.pc = "run" /\ sim.steps = MaxSteps
    /\ sim.a.state.inv_mass[0] = 0
    /\ sim.a.mouse.grabbed_index = 0
    /\ sim.a.mouse.target_position # sim.a.state.positions[0]
    /\ sim.a.state.positions[0] < ContactThickness
    /\ \E k \in DOMAIN sim.a.self_collision.collision_pairs :
          sim.a.self_collision.collision_pairs[k][1] = 0
    /\ AtConstructed(sim.a, 0)

\* C6: two instances built from the same input and taken through the same
\* calls hold the same positions and previous positions after every step,
\* whatever the iteration orders of the hash containers at construction.
C6_InstancesAgree ==
    sim.pc = "run" =>
        /\ sim.a.state.positions = sim.b.state.positions
        /\ sim.a.state.prev_positions = sim.b.state.prev_positions

----------------------------------------------------------------------------
(* Specification SpecBroad: a CollisionResolver taken through broad phases *)
(* over a crowd of particles next to a patch of collider triangles that    *)
(* all fall into one cell of the grid.                                     *)

\* Most particles of a crowd.
BroadMaxParticles == 11

\* Most triangles of a patch.
BroadMaxTriangles == 1000

\* Most broad phases of a run.
MaxBroads == 2

BroadParticleCounts ==
    {1, 2, BroadMaxParticles - 2, BroadMaxParticles - 1, BroadMaxParticles}

BroadTriangleCounts == {1, BroadMaxTriangles - 1, BroadMaxTriangles}

\* Height of the crowd above the patch (3 mm), and a height out of the
\* bounds of the grid.
BroadNear == 30000

BroadFar == 50000000

\* n particles at the same height, the first one pinned or not, the last
\* one out of the grid or not.
BroadState(n, pinned, outside) ==
    LET positions == [i \in 0..(n - 1) |->
                         IF outside /\ i = n - 1 THEN BroadFar ELSE BroadNear]
    IN [count |-> n, positions |-> positions, prev_positions |-> positions,
        inv_mass |-> [i \in 0..(n - 1) |-> IF pinned /\ i = 0 THEN 0 ELSE 1]]

BroadInit ==
    /\ \E n \in BroadParticleCounts, m \in BroadTriangleCounts,
          pinned \in BOOLEAN, outside \in BOOLEAN, parallel \in BOOLEAN :
          bp = [pc |-> "built",
                state |-> BroadState(n, pinned, outside),
                collider |-> MeshCollider_new([k \in 1..m |-> [y |-> 0, up |-> 1]], 0),
                resolver |-> CollisionResolver_new(n),
                parallel |-> parallel,
                broads |-> 0]
    /\ OthersIdle({"bp"})

\* CollisionResolver::broad_phase
BroadPhase ==
    /\ bp.pc \in {"built", "moved"}
    /\ bp.broads < MaxBroads
    /\ bp' = [bp EXCEPT !.pc = "done",
                        !.resolver = perform_broad_phase(bp.resolver, bp.state, bp.collider,
                                                         bp.parallel),
                        !.broads = @ + 1]
    /\ OthersUnchanged({"bp"})

\* Between two frames particle 0 leaves the grid, every particle rises by
\* 1 mm, or the last particle goes to the point opposite to it on the other
\* side of the patch.
BroadMove ==
    /\ bp.pc = "done"
    /\ bp.broads < MaxBroads
    /\ \E kind \in {"leave", "rise", "cross"} :
          bp' = [bp EXCEPT !.pc = "moved",
                           !.state.prev_positions = bp.state.positions,
                           !.state.positions =
                               [i \in 0..(bp.state.count - 1) |->
                                   CASE kind = "leave" ->
                                            (IF i = 0 THEN BroadFar ELSE bp.state.positions[i])
                                     [] kind = "rise" -> bp.state.positions[i] + 10000
                                     [] OTHER ->
                                            (IF i = bp.state.count - 1
                                             THEN 0 - bp.state.positions[i]
                                             ELSE bp.state.positions[i])]]
    /\ OthersUnchanged({"bp"})

BroadNext == BroadPhase \/ BroadMove

SpecBroad == BroadInit /\ [][BroadNext]_vars

\* The sum of all per-particle candidate counts.
RECURSIVE CandidateTotal(_, _)
CandidateTotal(resolver, i) ==
    IF i < 0 THEN 0 ELSE resolver.candidate_counts[i] + CandidateTotal(resolver, i - 1)

\* C11: after every broad phase the candidate counts add up to less than
\* the capacity of the candidate buffer and the buffer holds no more than
\* its capacity, in the serial and in the parallel path.
C11_CandidatesBelowCapacity ==
    bp.pc = "done" =>
        /\ CandidateTotal(bp.resolver, bp.state.count - 1) < bp.resolver.capacity
        /\ Len(bp.resolver.candidate_indices) <= bp.resolver.capacity

\* The serial path alone keeps the total below the capacity.
BroadSerialCapped ==
    (bp.pc = "done" /\ ~bp.parallel) =>
        CandidateTotal(bp.resolver, bp.state.count - 1) < bp.resolver.capacity

----------------------------------------------------------------------------
(* Specification SpecStep: one Simulation through step, grab,              *)
(* update_target and release calls, with the trace of its last step call.  *)
(* A run either varies the configuration and the sub-step counter and      *)
(* makes no interaction calls, or keeps the default configuration and      *)
(* interleaves interaction calls with its steps.                           *)

\* step calls of a run.
MaxStepCalls == 2

\* grab, update_target and release calls of a run with interaction.
MaxInteractions == 2

\* The mesh of a run: a triangle 0-1-2 over the floor and the loose particle
\* 3.  Particle 0 starts within the contact thickness of the floor, particle
\* 3 just above particle 0's self-collision thickness, and particle 2 just
\* above the reach of the discrete test.
StepMesh ==
    [indices |-> <<0, 1, 2>>,
     positions |-> (0 :> 30000 @@ 1 :> 630000 @@ 2 :> DiscreteRadius + 300 @@ 3 :> 80500)]

\* substeps and solver_iterations the host sets in config.
StepLoopCounts == {<<Substeps, SolverIterations>>, <<3, 2>>}

\* self_collision.config.frequency as the host sets it.
StepFrequencies == {0, 1, 2, 3}

\* Values of the sub-step counter at the start of a run: a fresh instance
\* and one that is one default frame away from 2^32 sub-steps.
StepCounters == {[hi |-> 0, lo |-> 0], [hi |-> HalfWord - 1, lo |-> HalfWord - Substeps]}

StepInstance(pinned, loops, enabled, frequency, counter) ==
    LET input == [indices |-> StepMesh.indices, positions |-> StepMesh.positions,
                  collider |-> SimFloor, inflation |-> 0]
        s == Simulation_new(input, SortedEdges(EdgeKeys(input.indices)),
                            CHOOSE o \in BendingOrders(input.indices, 4) : TRUE)
    IN [s EXCEPT !.state.inv_mass = [i \in 0..3 |-> IF i \in pinned THEN 0 ELSE 1],
                 !.config.substeps = loops[1],
                 !.config.solver_iterations = loops[2],
                 !.config.self_collision_enabled = enabled,
                 !.self_collision.config.frequency = frequency,
                 !.substep_counter = counter]

\* history: for each of the latest sub-steps, oldest first, whether the
\* self-collision solve ran in it.  active, grabbed and target record the
\* interaction calls made so far.
StepRecord(inst, interactions) ==
    [pc |-> "run", inst |-> inst, last |-> "new", steps |-> 0,
     interactions |-> interactions, history |-> <<>>,
     active |-> FALSE, grabbed |-> NoIndex, target |-> 0]

StepInit ==
    /\ \/ \E loops \in StepLoopCounts, enabled \in BOOLEAN, frequency \in StepFrequencies,
             counter \in StepCounters :
             st = StepRecord(StepInstance({}, loops, enabled, frequency, counter),
                             MaxInteractions)
       \/ \E pinned \in {{}, {0}} :
             st = StepRecord(StepInstance(pinned, <<Substeps, SolverIterations>>, TRUE,
                                          SelfFrequency, [hi |-> 0, lo |-> 0]), 0)
    /\ OthersIdle({"st"})

\* The stages of a trace.
StageNames(log) == [k \in 1..Len(log) |-> log[k].stage]

\* Per sub-step of a trace whether the self-collision solve ran in it.
SelfFlags(log) ==
    LET marks == SelectSeq(StageNames(log), LAMBDA n : n \in {"integrate", "self_collision"})
        starts == SelectIdx(Len(marks), LAMBDA k : marks[k] = "integrate")
    IN [j \in 1..Len(starts) |->
           starts[j] < Len(marks) /\ marks[starts[j] + 1] = "self_collision"]

\* PhysicsEngine::step
StepCall ==
    /\ st.pc = "run"
    /\ st.steps < MaxStepCalls
    /\ LET next == Simulation_step(st.inst, FrameDt, FALSE)
       IN st' = [st EXCEPT !.inst = next, !.last = "step", !.steps = @ + 1,
                           !.history = @ \o SelfFlags(next.log)]
    /\ OthersUnchanged({"st"})

\* PhysicsEngine::set_interaction
StepGrab ==
    /\ st.pc = "run"
    /\ st.interactions < MaxInteractions
    /\ \E index \in SimGrabIndices, position \in SimTargets :
          st' = [st EXCEPT !.inst.mouse = MouseConstraint_grab(@, index, position),
                           !.last = "grab", !.interactions = @ + 1,
                           !.active = TRUE, !.grabbed = index, !.target = position]
    /\ OthersUnchanged({"st"})

\* PhysicsEngine::update_interaction
StepUpdateTarget ==
    /\ st.pc = "run"
    /\ st.interactions < MaxInteractions
    /\ \E position \in SimTargets :
          st' = [st EXCEPT !.inst.mouse = MouseConstraint_update_target(@, position),
                           !.last = "update_target", !.interactions = @ + 1,
                           !.target = position]
    /\ OthersUnchanged({"st"})

\* PhysicsEngine::end_interaction
StepRelease ==
    /\ st.pc = "run"
    /\ st.interactions < MaxInteractions
    /\ st' = [st EXCEPT !.inst.mouse = MouseConstraint_release(@),
                        !.last = "release", !.interactions = @ + 1,
                        !.active = FALSE]
    /\ OthersUnchanged({"st"})

StepNext == StepCall \/ StepGrab \/ StepUpdateTarget \/ StepRelease

SpecStep == StepInit /\ [][StepNext]_vars

\* seq repeated n times.
RECURSIVE Repeat(_, _)
Repeat(seq, n) == IF n = 0 THEN <<>> ELSE seq \o Repeat(seq, n - 1)

\* The stages of a trace that are among the given ones, in trace order.
StagesAmong(log, stages) == SelectSeq(StageNames(log), LAMBDA n : n \in stages)

\* The contact list a trace's latest narrow phase before entry k built.
NarrowBefore(log, k) ==
    LET last == CHOOSE j \in 1..(k - 1) :
                    /\ log[j].stage = "narrow_phase"
                    /\ \A m \in (j + 1)..(k - 1) : log[m].stage # "narrow_phase"
    IN log[last].arg

\* C13: every step call runs to its end through exactly config.substeps
\* sub-steps, and each sub-step through exactly config.solver_iterations
\* solver passes with one resolve_contacts call in each pass, whatever the
\* particles' state.
C13_AllSubstepsAndPasses ==
    (st.pc = "run" /\ st.last = "step") =>
        LET config == st.inst.config
            log == st.inst.log
        IN /\ StagesAmong(log, {"integrate", "distance", "resolve_contacts"})
                 = Repeat(<<"integrate">>
                             \o Repeat(<<"distance", "resolve_contacts">>,
                                       config.solver_iterations),
                          config.substeps)
           /\ log[Len(log)].stage = "normals"

\* A step with three sub-steps of two passes has run on particles that were
\* in contact with the floor during it.
C13_Witness ==
    /\ st.pc = "run"
    /\ st.last = "step"
    /\ st.inst.config.substeps = 3
    /\ st.inst.config.solver_iterations = 2
    /\ \E k \in 1..Len(st.inst.log) :
          /\ st.inst.log[k].stage = "resolve_contacts"
          /\ st.inst.log[k].arg # <<>>

\* C20: in one step call the broad phase runs once, before the first
\* sub-step; every sub-step runs aerodynamics, integration, mouse constraint,
\* narrow phase, the solver passes and then, when scheduled, self-collision;
\* every resolve_contacts works on the contact list of its own sub-step's
\* narrow phase; the vertex normals are recomputed once, at the end.
C20_StageOrder ==
    (st.pc = "run" /\ st.last = "step") =>
        LET config == st.inst.config
            log == st.inst.log
            names == StageNames(log)
        IN /\ SelectSeq(names, LAMBDA n : n # "self_collision")
                 = <<"broad_phase">>
                      \o Repeat(<<"aerodynamics", "integrate", "mouse", "narrow_phase">>
                                   \o Repeat(<<"distance", "bending", "tether", "area",
                                               "resolve_contacts">>,
                                             config.solver_iterations),
                                config.substeps)
                      \o <<"normals">>
           /\ \A k \in 1..Len(log) :
                 /\ names[k] = "self_collision" =>
                       /\ names[k - 1] = "resolve_contacts"
                       /\ names[k + 1] \in {"aerodynamics", "normals"}
                 /\ names[k] = "resolve_contacts" =>
                       log[k].arg = NarrowBefore(log, k)
           /\ st.inst.normals = compute_vertex_normals(st.inst.state)

\* A step has run self-collision in some sub-steps and not in others, and
\* two of its sub-steps built different contact lists.
C20_Witness ==
    /\ st.pc = "run"
    /\ st.last = "step"
    /\ \E k \in 1..Len(st.inst.log) : st.inst.log[k].stage = "self_collision"
    /\ \E j \in 1..Len(st.history) : ~st.history[j]
    /\ \E j, k \in 1..Len(st.inst.log) :
          /\ st.inst.log[j].stage = "narrow_phase"
          /\ st.inst.log[k].stage = "narrow_phase"
          /\ st.inst.log[j].arg # st.inst.log[k].arg

\* How many of the sub-steps from..to of a run had the self-collision solve.
RECURSIVE SelfRuns(_, _, _)
SelfRuns(history, from, to) ==
    IF from > to THEN 0
    ELSE (IF history[from] THEN 1 ELSE 0) + SelfRuns(history, from + 1, to)

\* C14: with self-collision enabled and frequency N >= 1 the self-collision
\* solve runs in exactly one of every N consecutive sub-steps of a run,
\* counted across its step calls and across the wrap of the 32-bit counter
\* (and so in every sub-step when N = 1); with self-collision disabled it
\* runs in none.
C14_OncePerFrequency ==
    st.pc = "run" =>
        LET enabled == st.inst.config.self_collision_enabled
            N == st.inst.self_collision.config.frequency
            history == st.history
        IN /\ (enabled /\ N >= 1) =>
                 \A from \in 1..(Len(history) - N + 1) :
                    SelfRuns(history, from, from + N - 1) = 1
           /\ ~enabled => \A k \in 1..Len(history) : ~history[k]

\* The same on the runs whose sub-step counter does not wrap.
SelfOncePerFrequencyBeforeWrap ==
    (/\ st.pc = "run"
     /\ st.inst.substep_counter = [hi |-> 0, lo |-> st.steps * st.inst.config.substeps])
        => C14_OncePerFrequency

\* The particles a trace's mouse stages moved.
MousePulled(log) ==
    {i \in 0..(st.inst.state.count - 1) :
        \E k \in 1..Len(log) :
           log[k].stage = "mouse" /\ log[k].arg.after[i] # log[k].arg.before[i]}

\* C15: over any sequence of grab, update_target, release and step calls, the
\* mouse stage of a sub-step moves a particle only while a grab is active
\* (no release since the last grab), and then only the particle of that grab,
\* only if its index is below the particle count and it is not pinned, and it
\* moves it to the latest target; update_target does not change which
\* particle that is; and the three interaction calls themselves move nothing.
C15_PullOnlyWhileGrabbed ==
    [][st.pc = "run" =>
          /\ st'.last = "step" /\ st'.steps = st.steps + 1 =>
                \A k \in 1..Len(st'.inst.log) :
                   LET e == st'.inst.log[k] IN
                   e.stage = "mouse" =>
                      \A i \in 0..(st.inst.state.count - 1) :
                         e.arg.after[i] # e.arg.before[i] =>
                            /\ st.active
                            /\ i = st.grabbed
                            /\ st.inst.state.inv_mass[i] # 0
                            /\ e.arg.after[i] = st.target
          /\ st'.interactions = st.interactions + 1 =>
                /\ st'.inst.state = st.inst.state
                /\ st'.last = "update_target" =>
                      st'.inst.mouse.grabbed_index = st.inst.mouse.grabbed_index]_vars

\* After a grab of the free particle 0 and an update_target, every sub-step
\* of a step has pulled particle 0, and nothing else, to the target.
C15_Witness ==
    /\ st.pc = "run"
    /\ st.last = "step"
    /\ st.interactions = MaxInteractions
    /\ st.active
    /\ st.grabbed = 0
    /\ st.inst.mouse.grabbed_index = 0
    /\ st.inst.state.inv_mass[0] # 0
    /\ MousePulled(st.inst.log) = {0}

\* A step after the release of a grab of the free particle 0 has pulled
\* nothing.
MouseReleasedPullsNothing ==
    /\ st.pc = "run"
    /\ st.last = "step"
    /\ st.steps = MaxStepCalls
    /\ st.grabbed = 0
    /\ ~st.active
    /\ st.inst.state.inv_mass[0] # 0
    /\ st.inst.state.positions[0] # st.target
    /\ MousePulled(st.inst.log) = {}

----------------------------------------------------------------------------
(* Specification SpecTether: TetherConstraint::solve on the tethers of a   *)
(* garment of separate columns, one vertical tether per column from its    *)
(* top particle to its bottom particle, after the host has moved and       *)
(* pinned particles.                                                       *)

\* Columns of the largest garment: one 4-wide chunk and a scalar remainder.
MaxTetherColumns == 5

\* solve calls of a run.
MaxTetherSolves == 2

TetherColumnCounts == {1, 4, MaxTetherColumns}

\* Height of a column at construction, 0.12 m; the rest length of its tether.
TetherHeights == {1200000}

\* Top particle of a column relative to the rest length of its tether when
\* solve is called: 2 cm slack, at the rest length, and stretched.
TetherOffsets(stretch) == {-200000, 0, stretch}

TetherStretches == {4, 300000}

\* Which particles the host pinned.
TetherPinnings == {"none", "top", "bottom", "first"}

TetherOmegas == {Thousand, OmegaOf(1, Thousand)}

\* Column k (1-based) has its top particle 2k-2 over its bottom particle 2k-1.
TetherColumns(n, height) ==
    [k \in 1..n |-> [pair |-> <<2 * k - 2, 2 * k - 1>>, rest |-> height]]

TetherInvMass(n, pinning) ==
    [i \in 0..(2 * n - 1) |->
        CASE pinning = "none" -> 1
          [] pinning = "top" -> IF i % 2 = 0 THEN 0 ELSE 1
          [] pinning = "bottom" -> IF i % 2 = 1 THEN 0 ELSE 1
          [] pinning = "first" -> IF i < 2 THEN 0 ELSE 1]

TetherInit ==
    /\ \E n \in TetherColumnCounts, height \in TetherHeights, stretch \in TetherStretches,
          pinning \in TetherPinnings, omega \in TetherOmegas :
          \E offsets \in [1..n -> TetherOffsets(stretch)] :
             tt = [pc |-> "run",
                   tc |-> TetherColored(TetherColumns(n, height), FALSE),
                   positions |-> [i \in 0..(2 * n - 1) |->
                                     IF i % 2 = 0 THEN height + offsets[(i \div 2) + 1] ELSE 0],
                   inv_mass |-> TetherInvMass(n, pinning),
                   omega |-> omega,
                   solves |-> 0]
    /\ OthersIdle({"tt"})

\* TetherConstraint::solve
TetherSolve ==
    /\ tt.pc = "run"
    /\ tt.solves < MaxTetherSolves
    /\ tt' = [tt EXCEPT !.positions = TetherConstraint_solve(tt.tc, tt.positions,
                                                               tt.inv_mass, tt.omega),
                        !.solves = @ + 1]
    /\ OthersUnchanged({"tt"})

TetherNext == TetherSolve

SpecTether == TetherInit /\ [][TetherNext]_vars

\* Current length of tether k.
TetherLen(positions, k) ==
    Abs(positions[tt.tc.constraints[k][1]] - positions[tt.tc.constraints[k][2]])

\* One solve leaves both particles of every tether that is not longer than
\* its rest length where they are.
TetherSlackKept ==
    \A k \in 1..Len(tt.tc.constraints) :
       TetherLen(tt.positions, k) <= tt.tc.rest_lengths[k] =>
          \A i \in Range(tt.tc.constraints[k]) : tt'.positions[i] = tt.positions[i]

\* C16 as stated: solve changes neither particle of a tether that is not
\* longer than its rest length, in the 4-wide and in the scalar kernel; and
\* with omega = 1 one solve makes every tether that is longer than its rest
\* length shorter, but not shorter than the rest length.
C16_AsStated ==
    [][tt.pc = "run" =>
          /\ TetherSlackKept
          /\ tt.omega = Thousand =>
                \A k \in 1..Len(tt.tc.constraints) :
                   TetherLen(tt.positions, k) > tt.tc.rest_lengths[k] =>
                      /\ TetherLen(tt'.positions, k) < TetherLen(tt.positions, k)
                      /\ TetherLen(tt'.positions, k) >= tt.tc.rest_lengths[k]]_vars

\* C16: solve changes neither particle of a tether that is not longer than
\* its rest length, in the 4-wide and in the scalar kernel; with omega = 1
\* one solve makes every tether that is longer than its rest length and has
\* an end that is not pinned shorter, but not shorter than the rest length;
\* a tether with both ends pinned keeps its length.
C16_TetherOneSided ==
    [][tt.pc = "run" =>
          /\ TetherSlackKept
          /\ \A k \in 1..Len(tt.tc.constraints) :
                LET pinned == \A i \in Range(tt.tc.constraints[k]) : tt.inv_mass[i] = 0 IN
                /\ pinned => TetherLen(tt'.positions, k) = TetherLen(tt.positions, k)
                /\ (/\ tt.omega = Thousand
                    /\ ~pinned
                    /\ TetherLen(tt.positions, k) > tt.tc.rest_lengths[k]) =>
                      /\ TetherLen(tt'.positions, k) < TetherLen(tt.positions, k)
                      /\ TetherLen(tt'.positions, k) >= tt.tc.rest_lengths[k]]_vars

\* One solve with omega = 1 has gone through a full 4-wide chunk and the
\* scalar remainder: the chunk held a slack and a stretched tether and the
\* remainder was stretched, and now no tether is longer than its rest length.
C16_Witness ==
    /\ tt.pc = "run"
    /\ tt.solves = 1
    /\ tt.omega = Thousand
    /\ Len(tt.tc.constraints) = 5
    /\ tt.tc.batch_offsets = <<0, 5>>
    /\ \A i \in DOMAIN tt.inv_mass : tt.inv_mass[i] = 1
    /\ TetherLen(tt.positions, 1) < tt.tc.rest_lengths[1]
    /\ tt.positions[tt.tc.constraints[2][2]] > 0
    /\ tt.positions[tt.tc.constraints[5][2]] > 0
    /\ \A k \in 1..5 : TetherLen(tt.positions, k) <= tt.tc.rest_lengths[k]

----------------------------------------------------------------------------
(* Specification SpecSpring: repeated DistanceConstraint::solve calls on   *)
(* the two particles of tests/systems/constraints/distance.rs: built 1 m   *)
(* apart with triangle indices 0, 1, 0, then one of them pinned and one of *)
(* them moved so that they are 2 m apart.                                  *)

\* solve calls of a run.
MaxSpringSolves == 6

\* 1.0 m, the distance at construction.
SpringRest == 10000000

\* Positions of particles 0 and 1 when the first solve is called.
SpringPlacements ==
    {<<0, 2 * SpringRest>>, <<0 - SpringRest, SpringRest>>, <<0, 0 - 2 * SpringRest>>}

\* Compliances: 0, the default 1e-7, and 1e-3.
SpringCompliances == {0, DistanceCompliance, 10000}

\* dt of a solve call: a frame and a sub-step of the default configuration.
SpringDts == {FrameDt, FrameDt \div Substeps}

SpringInit ==
    /\ \E placement \in SpringPlacements, pinned \in {0, 1},
          compliance \in SpringCompliances, dt \in SpringDts,
          order \in IterationOrders(EdgeKeys(<<0, 1, 0>>)) :
          sg = [pc |-> "run",
                dc |-> DistanceConstraint_new(<<0, 1, 0>>, (0 :> 0 @@ 1 :> SpringRest),
                                              compliance, order, FALSE),
                positions |-> (0 :> placement[1] @@ 1 :> placement[2]),
                inv_mass |-> [i \in 0..1 |-> IF i = pinned THEN 0 ELSE 1],
                dt |-> dt,
                solves |-> 0]
    /\ OthersIdle({"sg"})

\* constraint_system.solve(&mut state, 1.0, dt)
SpringSolve ==
    /\ sg.pc = "run"
    /\ sg.solves < MaxSpringSolves
    /\ sg' = [sg EXCEPT !.positions = DistanceConstraint_solve(sg.dc, sg.positions, sg.inv_mass,
                                                                Thousand, sg.dt),
                        !.solves = @ + 1]
    /\ OthersUnchanged({"sg"})

SpringNext == SpringSolve

SpecSpring == SpringInit /\ [][SpringNext]_vars

SpringDistance(positions) == Abs(positions[0] - positions[1])

\* C17: two particles joined by one distance constraint of rest length 1.0,
\* one of them pinned, start 2.0 apart; over repeated solve calls with
\* omega = 1 and a compliance >= 0 their distance never increases from one
\* call to the next and never goes below 1.0.
C17_MonotoneNoOvershoot ==
    [][sg.pc = "run" =>
          /\ SpringDistance(sg'.positions) <= SpringDistance(sg.positions)
          /\ SpringDistance(sg'.positions) >= SpringRest]_vars

\* After the last solve of a run with compliance 1e-3 the pinned particle is
\* where it was and the distance is between 1.0 and 2.0, closer to 1.0.
C17_Witness ==
    /\ sg.pc = "run"
    /\ sg.solves = MaxSpringSolves
    /\ sg.dc.compliances = <<10000, 10000>>
    /\ sg.inv_mass[0] = 0
    /\ sg.positions[0] = 0
    /\ SpringDistance(sg.positions) > SpringRest
    /\ 2 * SpringDistance(sg.positions) < 3 * SpringRest

\* The distance has reached 1.0 exactly.
SpringAtRest == sg.pc = "run" /\ sg.solves > 0 /\ SpringDistance(sg.positions) = SpringRest

----------------------------------------------------------------------------
(* Specification SpecStiff: the same particles solved once by a            *)
(* SelfCollision with a lower and once by one with a higher stiffness, as  *)
(* in test_stiffness_effect of tests/collision/self_collision.rs.          *)

\* Stiffnesses in thousandths.
StiffValues == {0, 100, SelfStiffness, Thousand}

\* Thickness: the default and the 0.1 m of the test.
StiffThicknesses == {SelfThickness, 1000000}

\* Distance of the two particles: 20 um, the 100 um of the test, 2 mm, and
\* half the thickness.
StiffDistances(thickness) == {200, 1000, 20000, thickness \div 2}

\* The two particles alone, and as first corners of the two separate
\* triangles of the test, whose other corners coincide pairwise.
StiffMeshes(d) ==
    {[count |-> 2, indices |-> <<>>, pair |-> <<0, 1>>,
      positions |-> (0 :> 0 @@ 1 :> d)],
     [count |-> 6, indices |-> <<0, 1, 2, 3, 4, 5>>, pair |-> <<0, 3>>,
      positions |-> (0 :> 0 @@ 1 :> 10000000 @@ 2 :> 20000000
                     @@ 3 :> d @@ 4 :> 10000000 @@ 5 :> 20000000)]}

StiffCaps == {0, DefaultMaxPairs}

StiffInit ==
    /\ \E thickness \in StiffThicknesses, s1 \in StiffValues, s2 \in StiffValues,
          cap \in StiffCaps, parallel \in BOOLEAN, wa \in {0, 1}, wb \in {0, 1} :
          \E d \in StiffDistances(thickness) :
             \E mesh \in StiffMeshes(d) :
                /\ s1 < s2
                /\ sf = [pc |-> "run",
                         mesh |-> mesh,
                         d |-> d,
                         inv_mass |-> [i \in 0..(mesh.count - 1) |->
                                          IF i = mesh.pair[1] THEN wa
                                          ELSE IF i = mesh.pair[2] THEN wb ELSE 1],
                         parallel |-> parallel,
                         soft |-> [self |-> SelfCollision_new(mesh.indices, mesh.count,
                                       [SelfConfig(cap) EXCEPT !.thickness = thickness,
                                                               !.stiffness = s1]),
                                   positions |-> mesh.positions, solved |-> FALSE],
                         hard |-> [self |-> SelfCollision_new(mesh.indices, mesh.count,
                                       [SelfConfig(cap) EXCEPT !.thickness = thickness,
                                                               !.stiffness = s2]),
                                   positions |-> mesh.positions, solved |-> FALSE]]
    /\ OthersIdle({"sf"})

\* self_coll.solve(&mut state) on a clone of the state.
StiffSolved(run) ==
    LET out == SelfCollision_solve(run.self, run.positions, sf.inv_mass, sf.mesh.count,
                                   sf.parallel)
    IN [self |-> out.self, positions |-> out.positions, solved |-> TRUE]

\* self_coll_soft.solve(&mut state_soft)
StiffSolveSoft ==
    /\ sf.pc = "run"
    /\ ~sf.soft.solved
    /\ sf' = [sf EXCEPT !.soft = StiffSolved(sf.soft)]
    /\ OthersUnchanged({"sf"})

\* self_coll_hard.solve(&mut state_hard)
StiffSolveHard ==
    /\ sf.pc = "run"
    /\ ~sf.hard.solved
    /\ sf' = [sf EXCEPT !.hard = StiffSolved(sf.hard)]
    /\ OthersUnchanged({"sf"})

StiffNext == StiffSolveSoft \/ StiffSolveHard

SpecStiff == StiffInit /\ [][StiffNext]_vars

\* Distance of the two particles in the given positions.
StiffApart(positions) == Abs(positions[sf.mesh.pair[1]] - positions[sf.mesh.pair[2]])

\* C18 as stated: two particles that are not topology-excluded, closer than
\* the thickness and at non-zero distance are farther apart after one solve
\* with stiffness s2 than after one solve with stiffness s1 < s2.
C18_AsStated ==
    (/\ sf.pc = "run" /\ sf.soft.solved /\ sf.hard.solved
     /\ ~should_exclude(sf.soft.self.exclusion, sf.mesh.pair[1], sf.mesh.pair[2])
     /\ sf.d > 0
     /\ sf.d < sf.soft.self.config.thickness)
        => StiffApart(sf.hard.positions) > StiffApart(sf.soft.positions)

\* C18: two particles that are not topology-excluded, closer than the
\* thickness, with a squared distance above 1e-9 and not both pinned, are
\* farther apart after one solve with stiffness s2 than after one solve with
\* stiffness s1 < s2, given max_pairs >= 1; two particles that are both
\* pinned, or whose squared distance is not above 1e-9, are left where they
\* are by both solves.
C18_StiffnessOrders ==
    (/\ sf.pc = "run" /\ sf.soft.solved /\ sf.hard.solved
     /\ ~should_exclude(sf.soft.self.exclusion, sf.mesh.pair[1], sf.mesh.pair[2])
     /\ sf.d < sf.soft.self.config.thickness)
        => LET pinned == \A i \in Range(sf.mesh.pair) : sf.inv_mass[i] = 0 IN
           /\ (sf.d >= PairFloor /\ ~pinned /\ sf.soft.self.config.max_pairs >= 1) =>
                 StiffApart(sf.hard.positions) > StiffApart(sf.soft.positions)
           /\ (sf.d < PairFloor \/ pinned) =>
                 /\ sf.hard.positions = sf.mesh.positions
                 /\ sf.soft.positions = sf.mesh.positions

\* The test's case: first corners of two separate triangles 100 um apart,
\* thickness 0.1, stiffness 0.1 against 1.0, both free; the hard solve has
\* moved them farther apart than the soft one, which has moved them too.
C18_Witness ==
    /\ sf.pc = "run" /\ sf.soft.solved /\ sf.hard.solved
    /\ sf.mesh.count = 6
    /\ sf.d = 1000
    /\ sf.soft.self.config.thickness = 1000000
    /\ sf.soft.self.config.stiffness = 100
    /\ sf.hard.self.config.stiffness = Thousand
    /\ sf.inv_mass[0] = 1 /\ sf.inv_mass[3] = 1
    /\ StiffApart(sf.soft.positions) > sf.d
    /\ StiffApart(sf.hard.positions) > StiffApart(sf.soft.positions)

----------------------------------------------------------------------------
(* Specification SpecScan: the narrow phase for one particle near a        *)
(* collider of two or three parallel triangles (layers), which the         *)
(* collider mesh lists in any order; one broad phase, then narrow phases   *)
(* between which the host moves the particle.                              *)

\* narrow phases of a run.
MaxScans == 2

\* Heights of the layers: 0, 2 cm below and 3 cm above.
ScanLayers == {0, -200000, 300000}

\* The collider meshes: two or three layers in any order, facing up, or
\* with the layer at height 0 facing down.
ScanColliders ==
    {raw \in UNION {[1..n -> [y : ScanLayers, up : {1, -1}]] : n \in 2..3} :
        /\ \A j, k \in DOMAIN raw : j # k => raw[j].y # raw[k].y
        /\ \A k \in DOMAIN raw : raw[k].up = -1 => raw[k].y = 0}

\* Current and previous positions of the particle.
ScanPositions == {-150000, -10000, 50000, 250000}

ScanPrevs == {-300000, 10000, 400000}

ScanInit ==
    /\ \E raw \in ScanColliders, pos \in ScanPositions, prev \in ScanPrevs \cup ScanPositions,
          parallel \in BOOLEAN :
          np = [pc |-> "built",
                state |-> [count |-> 1,
                           positions |-> [i \in {0} |-> pos],
                           prev_positions |-> [i \in {0} |-> prev],
                           inv_mass |-> [i \in {0} |-> 1]],
                collider |-> MeshCollider_new(raw, 0),
                resolver |-> CollisionResolver_new(1),
                parallel |-> parallel,
                scans |-> 0]
    /\ OthersIdle({"np"})

\* resolver.broad_phase(&state, &mut collider)
ScanBroad ==
    /\ np.pc = "built"
    /\ np' = [np EXCEPT
                !.resolver = perform_broad_phase(np.resolver, np.state, np.collider, np.parallel),
                !.pc = "cached"]
    /\ OthersUnchanged({"np"})

\* resolver.narrow_phase(&mut state, &collider, &config, dt)
ScanNarrow ==
    /\ np.pc = "cached"
    /\ np.scans < MaxScans
    /\ LET out == perform_narrow_phase(np.resolver, np.state, np.collider, ContactThickness)
       IN np' = [np EXCEPT !.resolver = out.resolver, !.state = out.state,
                           !.scans = @ + 1, !.pc = "scanned"]
    /\ OthersUnchanged({"np"})

\* Before the next narrow phase the particle is somewhere else.
ScanMove ==
    /\ np.pc = "scanned"
    /\ \E pos \in ScanPositions, prev \in ScanPrevs :
          np' = [np EXCEPT !.state.positions[0] = pos, !.state.prev_positions[0] = prev,
                           !.pc = "cached"]
    /\ OthersUnchanged({"np"})

ScanNext == ScanBroad \/ ScanNarrow \/ ScanMove

SpecScan == ScanInit /\ [][ScanNext]_vars

\* The triangles cached as candidates of particle 0 (1-based indices).
ScanCandidateSet ==
    {np.resolver.candidate_indices[np.resolver.candidate_offsets[0] + j] + 1 :
        j \in 1..np.resolver.candidate_counts[0]}

\* The continuous hit of the particle's segment on triangle c.
ScanHit(c) ==
    intersect_segment(np.collider.triangles[c], np.state.prev_positions[0],
                      np.state.positions[0])

\* Distance from the particle's current position to triangle c.
ScanDist(c) == Abs(np.state.positions[0] - np.collider.triangles[c].y)

\* The contacts the stated rule allows for the particle before a narrow
\* phase: the earliest continuous hits if there is any hit, else the
\* nearest candidates within the discrete radius.
ScanAllowed ==
    LET hits == {c \in ScanCandidateSet : ScanHit(c).hit}
        near == {c \in ScanCandidateSet : ScanDist(c) < DiscreteRadius}
        motion == np.state.positions[0] - np.state.prev_positions[0]
    IN IF hits # {}
       THEN {[particle_index |-> 0,
              normal |-> IF ScanHit(c).normal * motion < 0
                         THEN ScanHit(c).normal ELSE -ScanHit(c).normal,
              surface_point |-> ScanHit(c).point] :
                c \in {h \in hits : \A o \in hits : ScanHit(h).d <= ScanHit(o).d}}
       ELSE {[particle_index |-> 0,
              normal |-> np.collider.triangles[c].normal,
              surface_point |-> np.collider.triangles[c].y] :
                c \in {n \in near : \A o \in near : ScanDist(n) <= ScanDist(o)}}

\* C19: for a particle with cached candidates the narrow phase records at
\* most one contact, and whatever the order of the candidates it is the
\* continuous hit with the smallest intersection parameter if the segment
\* from the previous to the current position hits any candidate; otherwise
\* the candidate nearest to the current position if that one is within the
\* discrete radius; otherwise none.
C19_SelectionByRule ==
    [][(np.pc = "cached" /\ np'.pc = "scanned" /\ np.resolver.candidate_counts[0] > 0) =>
          /\ Len(np'.resolver.contacts) <= 1
          /\ ScanAllowed = {} => np'.resolver.contacts = <<>>
          /\ ScanAllowed # {} =>
                /\ Len(np'.resolver.contacts) = 1
                /\ np'.resolver.contacts[1] \in ScanAllowed]_vars

\* The same without a candidate that only the discrete test reaches ahead
\* of a candidate the segment hits.
ScanRuleWithoutDiscreteFirst ==
    [][(/\ np.pc = "cached" /\ np'.pc = "scanned" /\ np.resolver.candidate_counts[0] > 0
        /\ \A j, k \in 1..np.resolver.candidate_counts[0] :
              LET cj == np.resolver.candidate_indices[np.resolver.candidate_offsets[0] + j] + 1
                  ck == np.resolver.candidate_indices[np.resolver.candidate_offsets[0] + k] + 1
              IN (j < k /\ ScanHit(ck).hit) => ScanHit(cj).hit \/ ScanDist(cj) >= DiscreteRadius) =>
          /\ Len(np'.resolver.contacts) <= 1
          /\ ScanAllowed = {} => np'.resolver.contacts = <<>>
          /\ ScanAllowed # {} =>
                /\ Len(np'.resolver.contacts) = 1
                /\ np'.resolver.contacts[1] \in ScanAllowed]_vars

\* Index of the latest entry of the given stage before entry k of a trace.
LatestBefore(log, k, stage) ==
    CHOOSE j \in 1..(k - 1) :
       /\ log[j].stage = stage
       /\ \A m \in (j + 1)..(k - 1) : log[m].stage # stage

\* The Chebyshev factor the passes of one solve call are to get, in
\* thousandths: 1, then 2 / (2 - rho^2), then 4 / (4 - rho^2 * previous).
RECURSIVE PassOmega(_)
PassOmega(i) ==
    IF i = 0 THEN Thousand
    ELSE IF i = 1
    THEN Div(2 * Thousand * Thousand,
             2 * Thousand - Div(SpectralRadius * SpectralRadius, Thousand))
    ELSE Div(4 * Thousand * Thousand,
             4 * Thousand - Div(Div(SpectralRadius * SpectralRadius, Thousand)
                                   * PassOmega(i - 1), Thousand))

\* C21: every pass of Solver::solve runs distance, bending, tether, area and
\* contact resolution in that order; the four constraint solves get the
\* pass's omega, which is 1 in the first pass of every solve call and is
\* computed from the previous pass's omega afterwards; contact resolution is
\* the plain resolve_contacts on the contact list, with no omega.
C21_PassOrderAndOmega ==
    (st.pc = "run" /\ st.last = "step") =>
        LET log == st.inst.log IN
        \A k \in 1..Len(log) :
           log[k].stage = "distance" =>
              LET pass == (k - LatestBefore(log, k, "narrow_phase") - 1) \div 5 IN
              /\ log[k + 1].stage = "bending"
              /\ log[k + 2].stage = "tether"
              /\ log[k + 3].stage = "area"
              /\ log[k + 4].stage = "resolve_contacts"
              /\ \A m \in k..(k + 3) : log[m].arg = PassOmega(pass)
              /\ log[k + 4].after
                    = resolve_contacts([st.inst.resolver EXCEPT !.contacts = log[k + 4].arg],
                                       log[k + 4].before)

\* The second step call of a run has started its first pass at omega = 1
\* again, has raised omega in its later passes, and one of its contact
\* resolutions has moved a particle.
C21_Witness ==
    /\ st.pc = "run"
    /\ st.last = "step"
    /\ st.steps = MaxStepCalls
    /\ st.inst.config.solver_iterations = SolverIterations
    /\ \E k \in 1..Len(st.inst.log) :
          /\ st.inst.log[k].stage = "distance"
          /\ st.inst.log[k - 1].stage = "narrow_phase"
          /\ st.inst.log[k].arg = Thousand
          /\ st.inst.log[k + 5].arg > Thousand
          /\ st.inst.log[k + 10].arg # st.inst.log[k + 5].arg
    /\ \E k \in 1..Len(st.inst.log) :
          /\ st.inst.log[k].stage = "resolve_contacts"
          /\ st.inst.log[k].after.positions # st.inst.log[k].before.positions
----------------------------------------------------------------------------
(* C22: the order of the batches (distance/solver.rs 25-76; the batched    *)
(* self-collision loop of resolution.rs 12-35 has no workers at all and is *)
(* the sequential fold ResolveBatches).                                    *)

\* The particles of the records of batch b (0-based).
BatchParticles(dc, b) ==
    UNION {Range(dc.constraints[k]) : k \in (dc.batch_offsets[b + 1] + 1)..dc.batch_offsets[b + 2]}

\* The records of every batch of dc are pairwise particle-disjoint.
BatchesIndependent(dc) ==
    \A b \in 0..(NumBatches(dc.batch_offsets) - 1) :
        \A k1, k2 \in (dc.batch_offsets[b + 1] + 1)..dc.batch_offsets[b + 2] :
            k1 # k2 => Range(dc.constraints[k1]) \cap Range(dc.constraints[k2]) = {}

\* The positions after the batches 0..b-1 have been solved one after another.
RECURSIVE AfterBatches(_, _, _, _, _, _)
AfterBatches(dc, positions, inv_mass, b, dt, omega) ==
    IF b = 0 THEN positions
    ELSE SolveBatch(dc, AfterBatches(dc, positions, inv_mass, b - 1, dt, omega),
                    inv_mass, b - 1, dt, omega)

\* While batch b is in flight only particles of batch b are loaded.
BatchInFlight ==
    ds.pc = "batch" =>
        \A c \in DOMAIN ds.workers :
            DOMAIN ds.workers[c].loaded \subseteq BatchParticles(ds.dc, ds.b)

\* A step of the parallel solve writes only particles of the current batch,
\* and the batch index moves on, by one, only when every chunk worker of
\* the batch is done and with the scalar remainder of the batch applied.
BatchStep ==
    ds.pc = "batch" =>
        /\ \A q \in DOMAIN ds.positions :
              ds'.positions[q] # ds.positions[q] => q \in BatchParticles(ds.dc, ds.b)
        /\ (ds'.b # ds.b \/ ds'.pc # "batch") =>
              /\ \A c \in DOMAIN ds.workers : ds.workers[c].pc = "done"
              /\ ds'.positions
                    = SolveRemainder(ds.dc, ds.positions, ds.inv_mass,
                                     ds.dc.batch_offsets[ds.b + 1] + NumChunks(ds.dc, ds.b) * 4,
                                     ds.dc.batch_offsets[ds.b + 2], ds.dt, ds.omega)
              /\ ds'.pc = "batch" => ds'.b = ds.b + 1
              /\ ds'.pc # "batch" => ds.b + 1 = NumBatches(ds.dc.batch_offsets)

\* A batch whose records share no particle starts from the positions all
\* earlier batches have left behind.
BatchSeesEarlierWrites ==
    /\ ds.pc = "batch" /\ BatchesIndependent(ds.dc)
       /\ (\A c \in DOMAIN ds.workers : ds.workers[c].pc = "load") =>
          ds.positions = AfterBatches(ds.dc, ds.start, ds.inv_mass, ds.b, ds.dt, ds.omega)

\* C22: the batches of a colored constraint set are processed strictly in
\* index order: nothing of batch b+1 is read or written before every chunk
\* worker of batch b is done and its scalar remainder has been applied, so
\* batch b+1 sees all position writes of batch b.
C22_BatchesInOrder ==
    /\ [][BatchStep]_vars
    /\ [](BatchInFlight /\ BatchSeesEarlierWrites)

\* A worker of a later batch has loaded a position an earlier batch wrote.
C22_Witness ==
    /\ ds.pc = "batch" /\ ds.b >= 1 /\ BatchesIndependent(ds.dc)
    /\ \E c \in DOMAIN ds.workers :
          /\ ds.workers[c].pc = "write"
          /\ \E q \in DOMAIN ds.workers[c].loaded :
                /\ ds.workers[c].loaded[q] # ds.start[q]
                /\ q \in BatchParticles(ds.dc, ds.b - 1)
----------------------------------------------------------------------------
(* C23: which particles the broad phase passes over (broad.rs 27-45,       *)
(* 121-134; static_grid.rs 54-61).                                         *)

\* The guard against overfull buffers cannot have taken particle i's
\* candidates: even count times its query fits below the capacity.
BroadUncapped(i) ==
    bp.state.count * Len(BroadQuery(bp.state, bp.collider, i)) < bp.resolver.capacity

\* Particle i would have got candidates from the grid but has none.
BroadPassedOver(i) ==
    /\ bp.resolver.candidate_counts[i] = 0
    /\ Len(BroadQuery(bp.state, bp.collider, i)) > 0
    /\ BroadUncapped(i)

BroadMidpoint(i) == Div(bp.state.positions[i] + bp.state.prev_positions[i], 2)

\* C23: a non-pinned particle is given zero candidates without a query of
\* the grid only if none of its current position, its previous position
\* and the midpoint between them lies inside the collider's global bounds;
\* a pinned particle always gets zero candidates.
C23_SkipOnlyOutsideBounds ==
    bp.pc = "done" =>
        \A i \in 0..(bp.state.count - 1) :
            /\ bp.state.inv_mass[i] = 0 => bp.resolver.candidate_counts[i] = 0
            /\ (bp.state.inv_mass[i] # 0 /\ BroadPassedOver(i)) =>
                  /\ ~StaticSpatialHash_contains(bp.collider.spatial_hash, bp.state.positions[i])
                  /\ ~StaticSpatialHash_contains(bp.collider.spatial_hash,
                                                 bp.state.prev_positions[i])
                  /\ ~StaticSpatialHash_contains(bp.collider.spatial_hash, BroadMidpoint(i))

\* What the code does: the two ends of the motion decide, the midpoint is
\* not looked at; a non-pinned particle with an end inside the bounds gets
\* what the query returns.
BroadSkipByEndpoints ==
    bp.pc = "done" =>
        \A i \in 0..(bp.state.count - 1) :
            /\ bp.state.inv_mass[i] = 0 => bp.resolver.candidate_counts[i] = 0
            /\ (bp.state.inv_mass[i] # 0 /\ BroadPassedOver(i)) =>
                  /\ ~StaticSpatialHash_contains(bp.collider.spatial_hash, bp.state.positions[i])
                  /\ ~StaticSpatialHash_contains(bp.collider.spatial_hash,
                                                 bp.state.prev_positions[i])
            /\ (/\ bp.state.inv_mass[i] # 0 /\ BroadUncapped(i)
                /\ \/ StaticSpatialHash_contains(bp.collider.spatial_hash, bp.state.positions[i])
                   \/ StaticSpatialHash_contains(bp.collider.spatial_hash,
                                                 bp.state.prev_positions[i])) =>
                  bp.resolver.candidate_counts[i] = Len(BroadQuery(bp.state, bp.collider, i))
----------------------------------------------------------------------------
(* C24: what detect_pairs stores (detection.rs 82-131) and the neighbours  *)
(* test of tests/collision/self_collision.rs 40-57.                        *)

SelfTriangles ==
    {{sc.indices[3 * t - 2], sc.indices[3 * t - 1], sc.indices[3 * t]}
        : t \in 1..(Len(sc.indices) \div 3)}

SelfGap(i, j) == Abs(sc.positions[i] - sc.positions[j])

\* Every two particles closer than the thickness are within ring-depth
\* hops of each other in the mesh.
SelfCloseAreNeighbours ==
    \A i, j \in 0..(sc.count - 1) :
        (i # j /\ SelfGap(i, j) < sc.self.config.thickness) =>
            j \in ExclReachable(SelfTriangles, i, SelfRingDepth)

\* Every stored pair is ordered, not within two hops, closer than the
\* thickness and farther apart than sqrt(1e-9) m, and stored once.
SelfPairsSound ==
    sc.pc = "detected" =>
        \A k \in 1..Len(sc.self.collision_pairs) :
            LET i == sc.self.collision_pairs[k][1]
                j == sc.self.collision_pairs[k][2]
            IN /\ i < j
               /\ j \notin ExclReachable(SelfTriangles, i, SelfRingDepth)
               /\ SelfGap(i, j) < sc.self.config.thickness
               /\ SelfGap(i, j) > 316
               /\ \A l \in 1..Len(sc.self.collision_pairs) :
                     sc.self.collision_pairs[l] = sc.self.collision_pairs[k] => l = k

\* While all close particles are mesh neighbours no step of solve moves a
\* particle.
SelfNeighboursUntouched == SelfCloseAreNeighbours => sc'.positions = sc.positions

\* C24: every pair stored by detect_pairs has i < j, is not excluded by the
\* topology exclusion, has a distance at detection time below the thickness
\* and above the numerical floor, and occurs once in the pair list; hence a
\* self-collision solve changes no position when every pair of close
\* particles is within two mesh hops.
C24_PairsSoundNeighboursUntouched ==
    /\ []SelfPairsSound
    /\ [][SelfNeighboursUntouched]_vars

\* detect_pairs has stored the pair of the loose particle and a corner and
\* has left out the close corners of the triangle.
C24_Witness ==
    /\ sc.pc = "detected"
    /\ sc.self.collision_pairs # <<>>
    /\ \E i, j \in 0..(sc.count - 1) :
          /\ i < j /\ SelfGap(i, j) < sc.self.config.thickness
          /\ j \in ExclReachable(SelfTriangles, i, SelfRingDepth)

\* A solve over close mesh neighbours has gone through without pairs.
SelfNeighboursSolved ==
    /\ sc.pc = "idle" /\ sc.solves >= 1
    /\ SelfCloseAreNeighbours
    /\ \E i, j \in 0..(sc.count - 1) : i < j /\ SelfGap(i, j) < sc.self.config.thickness
----------------------------------------------------------------------------
(* C25: what resolve_contacts may move (resolver/mod.rs 69-124).           *)

\* The contacts of the current list that belong to particle i.
ContactsOf(i) ==
    {k \in DOMAIN nr.resolver.contacts : nr.resolver.contacts[k].particle_index = i}

\* The step is a resolve_contacts call.
ResolveTaken == nr.pc = "resolve" /\ nr'.pc = "detect"

----------------------------------------------------------------------------
(* C26: the returned pair against the greedy coloring (coloring.rs 8-66,   *)
(* 68-119, 121-134).  Constraint indices are 1-based here.                 *)

\* The position of constraint i in sorted_indices.
ColPlace(i) == CHOOSE k \in 1..Len(col.out.sorted_indices) : col.out.sorted_indices[k] = i

\* The color of constraint i: the batch its place falls into, counted from 0.
ColColorOf(i) ==
    (CHOOSE b \in 1..NumBatches(col.out.batch_offsets) :
        ColPlace(i) \in BatchRange(col.out.batch_offsets, b)) - 1

\* The colors of the constraints before i that share a particle with it.
ColEarlierColors(i) ==
    {ColColorOf(k) : k \in {n \in 1..(i - 1) :
                              Range(col.constraints[n]) \cap Range(col.constraints[i]) # {}}}

\* sorted_indices holds every constraint index exactly once.
ColPermutation ==
    /\ Len(col.out.sorted_indices) = Len(col.constraints)
    /\ Range(col.out.sorted_indices) = 1..Len(col.constraints)

\* batch_offsets starts at 0, never decreases and ends at n.
ColOffsets ==
    /\ Len(col.out.batch_offsets) >= 1
    /\ col.out.batch_offsets[1] = 0
    /\ col.out.batch_offsets[Len(col.out.batch_offsets)] = Len(col.constraints)
    /\ \A b \in 1..(Len(col.out.batch_offsets) - 1) :
          col.out.batch_offsets[b] <= col.out.batch_offsets[b + 1]

\* Every constraint has the lowest color no earlier constraint sharing a
\* particle with it has, and a batch lists its constraints in input order.
ColGreedy ==
    /\ \A i \in 1..Len(col.constraints) :
          /\ ColColorOf(i) \notin ColEarlierColors(i)
          /\ \A c \in 0..(ColColorOf(i) - 1) : c \in ColEarlierColors(i)
    /\ \A b \in 1..NumBatches(col.out.batch_offsets) :
          \A k1, k2 \in BatchRange(col.out.batch_offsets, b) :
              k1 < k2 => col.out.sorted_indices[k1] < col.out.sorted_indices[k2]

\* C26: color_constraints and color_constraints_3 return the greedy
\* coloring of the constraints in input order grouped by color: each
\* constraint has the lowest color not used by an earlier constraint that
\* shares a particle with it, sorted_indices holds every constraint index
\* exactly once, and batch_offsets starts at 0, never decreases and ends at
\* the number of constraints.
C26_ReturnsGreedyColoring ==
    ColReturned => (ColPermutation /\ ColOffsets /\ ColGreedy)

\* The same without the greedy clause, and the greedy clause for inputs no
\* particle of which is named by more than 64 constraints.
ColShapeAndGreedyUpTo64 ==
    ColReturned =>
        /\ ColPermutation /\ ColOffsets
        /\ (\A i \in 1..Len(col.constraints) :
               Cardinality(Incident(col.constraints, i)) <= WordBits) => ColGreedy
----------------------------------------------------------------------------
(* C27: clear and the ids a later query returns (dynamic.rs 56-63, 97-148; *)
(* test_clear_preserves_capacity).                                         *)

\* C27: whatever insert_point and clear calls came before it, a query
\* returns only ids inserted since the most recent clear, each of them at
\* most once; no id inserted before that clear is returned.
C27_QueryAfterClear ==
    hh.q # NoQuery =>
        /\ Range(hh.buffer) \subseteq DOMAIN hh.points
        /\ Range(hh.buffer) \cap DOMAIN hh.stale = {}
        /\ \A k1, k2 \in DOMAIN hh.buffer : hh.buffer[k1] = hh.buffer[k2] => k1 = k2

\* A query has returned a point inserted after a clear while a point
\* inserted before the clear lies within its radius as well.
C27_Witness ==
    /\ hh.q # NoQuery /\ hh.clears >= 1
    /\ hh.buffer # <<>>
    /\ \E id \in DOMAIN hh.stale : Abs(hh.stale[id] - hh.q[1]) <= hh.q[2]
----------------------------------------------------------------------------
(* C28: the two variants of detect_pairs (detection.rs 30-80, 82-131).     *)

\* The pair list the other build stores for the positions just scanned.
SelfOtherVariant ==
    detect_pairs(sc.self, sc.positions, sc.count, ~sc.parallel).collision_pairs

\* C28: for every position snapshot, exclusion set and max_pairs value the
\* serial and the parallel variant of detect_pairs store the same list of
\* collision pairs in the same order.
C28_VariantsAgree ==
    sc.pc = "detected" => sc.self.collision_pairs = SelfOtherVariant

\* The variants agree whenever max_pairs is at least 1.
SelfVariantsAgreeAboveZero ==
    (sc.pc = "detected" /\ sc.self.config.max_pairs >= 1) =>
        sc.self.collision_pairs = SelfOtherVariant
----------------------------------------------------------------------------
(* C29: what the narrow phase writes to the particles (narrow.rs 14-22,    *)
(* 115-130, 224-237).                                                      *)

\* max_v_per_step = contact_thickness * 0.9
NarrowCap == (ContactThickness * 9) \div 10

\* The step is a narrow_phase call.
NarrowTaken == nr.pc = "detect" /\ nr'.pc = "resolve"

----------------------------------------------------------------------------
(* C30: the candidate ranges and the writes of the scatter (broad.rs       *)
(* 65-113, 140-152).  Element e of candidate_indices (0-based) is          *)
(* candidate_indices[e + 1] here.                                          *)

\* The particles with a non-zero candidate count.
BroadHolders == {i \in 0..(bp.state.count - 1) : bp.resolver.candidate_counts[i] # 0}

\* candidate_offsets[i] .. candidate_offsets[i] + candidate_counts[i] - 1
BroadRange(i) ==
    bp.resolver.candidate_offsets[i]
        ..(bp.resolver.candidate_offsets[i] + bp.resolver.candidate_counts[i] - 1)

\* The elements the scatter worker of particle i writes: offset + j for
\* every entry j of the local buffer its second query fills.
BroadWrites(i) ==
    {bp.resolver.candidate_offsets[i] + j :
        j \in 0..(Len(BroadQuery(bp.state, bp.collider, i)) - 1)}

\* C30: after every broad phase the range of every particle with a
\* non-zero candidate count lies inside candidate_indices and the ranges of
\* different particles do not overlap; in the parallel scatter no two
\* workers write the same element and no worker writes outside its own
\* range, which then holds what its query returned.
C30_RangesDisjointAndInside ==
    bp.pc = "done" =>
        /\ \A i \in BroadHolders :
              BroadRange(i) \subseteq 0..(Len(bp.resolver.candidate_indices) - 1)
        /\ \A i, k \in BroadHolders : i # k => BroadRange(i) \cap BroadRange(k) = {}
        /\ bp.parallel =>
              /\ \A i \in BroadHolders : BroadWrites(i) \subseteq BroadRange(i)
              /\ \A i, k \in BroadHolders : i # k => BroadWrites(i) \cap BroadWrites(k) = {}
        /\ \A i \in BroadHolders :
              SubSeq(bp.resolver.candidate_indices,
                     bp.resolver.candidate_offsets[i] + 1,
                     bp.resolver.candidate_offsets[i] + bp.resolver.candidate_counts[i])
                  = BroadQuery(bp.state, bp.collider, i)

\* A second parallel broad phase has given ranges to several particles
\* behind a pinned particle that has none.
C30_Witness ==
    /\ bp.pc = "done" /\ bp.parallel /\ bp.broads = MaxBroads
    /\ 0 \notin BroadHolders
    /\ Cardinality(BroadHolders) >= 2
    /\ \E i \in BroadHolders : bp.resolver.candidate_offsets[i] > 0

====
